---- MODULE Spec2Model ----
(***************************************************************************)
(* Model of the goconfig Manager: the live Node tree, the modifiable       *)
(* registry, the version counter, the persisted source document and the    *)
(* insert/remove/replace protocol with its conditional variants.           *)
(*                                                                         *)
(* Every action is one critical section of Manager.mu: it starts at a      *)
(* Lock() and ends at the next Unlock(), so the states of the model are    *)
(* exactly the states in which the lock is free.  insertLocked,            *)
(* removeLocked and replaceLocked release the lock around the handler, so  *)
(* a mutation with a handler is two critical sections.                     *)
(***************************************************************************)
EXTENDS Integers, Sequences, FiniteSets, TLC

----------------------------------------------------------------------------
(* Bounds *)

\* total number of manager calls started over all goroutines
MaxOps == 2

Threads == {1, 2}

----------------------------------------------------------------------------
(* JSON values (the orderedmap documents and the values passed in) and      *)
(* Node values share one record shape, so that any two compare.            *)

JNum(n) == [k |-> "num", n |-> n, keys |-> <<>>, kids |-> <<>>]
JArr(s) == [k |-> "arr", n |-> 0, keys |-> <<>>, kids |-> s]
JObj(ks, vs) == [k |-> "obj", n |-> 0, keys |-> ks, kids |-> vs]

\* a string holds its text in keys, a boolean is 0 or 1 in n
JStr(s) == [k |-> "str", n |-> 0, keys |-> <<s>>, kids |-> <<>>]
JBool(b) == [k |-> "bool", n |-> IF b THEN 1 ELSE 0, keys |-> <<>>, kids |-> <<>>]

FreeNode == [k |-> "free", n |-> 0, keys |-> <<>>, kids |-> <<>>]

\* the document the source is constructed with
InitDoc ==
    JObj(<<"items", "name">>,
         <<JArr(<<JObj(<<"a">>, <<JNum(1)>>), JNum(2), JObj(<<"a">>, <<JNum(3)>>)>>),
           JNum(5)>>)

\* values the callers pass to Insert / Replace
Values == {JNum(7), JObj(<<"a">>, <<JNum(9)>>)}

RECURSIVE JSize(_)
RECURSIVE JSizeSeq(_)
JSize(v) == 1 + JSizeSeq(v.kids)
JSizeSeq(s) == IF s = <<>> THEN 0 ELSE JSize(Head(s)) + JSizeSeq(Tail(s))

\* the nodes of the results of one query
MaxResultNodes == 8

\* the arena: the nodes of the initial tree and room for what MaxOps calls
\* allocate and for the results of a query
NodeIds == 0 .. (JSize(InitDoc) + 2 * MaxOps + MaxResultNodes - 1)

Root == 0

----------------------------------------------------------------------------
(* strconv *)

Digits == <<"0", "1", "2", "3", "4", "5", "6", "7", "8", "9">>

Itoa(i) == IF i >= 0 /\ i < Len(Digits) THEN Digits[i + 1] ELSE "?"

ParseInt(s) ==
    IF \E i \in 1 .. Len(Digits) : Digits[i] = s
    THEN [ok |-> TRUE, v |-> (CHOOSE i \in 1 .. Len(Digits) : Digits[i] = s) - 1]
    ELSE [ok |-> FALSE, v |-> 0]

----------------------------------------------------------------------------
(* Node tree *)

KeyIndex(keys, key) ==
    IF \E i \in 1 .. Len(keys) : keys[i] = key
    THEN CHOOSE i \in 1 .. Len(keys) : keys[i] = key
    ELSE 0

FreeIds(h) == {i \in DOMAIN h : h[i].k = "free"}

FreshId(h) == CHOOSE i \in FreeIds(h) : \A j \in FreeIds(h) : i <= j

RECURSIVE parseNode(_, _)
RECURSIVE parseNodes(_, _)
\* parseNode: allocates a node for the value and, recursively, its children
parseNode(h, v) ==
    LET id == FreshId(h)
        h1 == [h EXCEPT ![id] = [k |-> v.k, n |-> v.n, keys |-> v.keys, kids |-> <<>>]]
        r == parseNodes(h1, v.kids)
    IN [h |-> [r.h EXCEPT ![id].kids = r.ids], id |-> id]
parseNodes(h, vs) ==
    IF vs = <<>> THEN [h |-> h, ids |-> <<>>]
    ELSE LET a == parseNode(h, Head(vs))
             b == parseNodes(a.h, Tail(vs))
         IN [h |-> b.h, ids |-> <<a.id>> \o b.ids]

RECURSIVE Content(_, _)
RECURSIVE ContentSeq(_, _)
\* the JSON value a node stands for
Content(h, id) ==
    [k |-> h[id].k, n |-> h[id].n, keys |-> h[id].keys, kids |-> ContentSeq(h, h[id].kids)]
ContentSeq(h, ids) ==
    IF ids = <<>> THEN <<>> ELSE <<Content(h, Head(ids))>> \o ContentSeq(h, Tail(ids))

RECURSIVE Reach(_, _)
RECURSIVE ReachSeq(_, _)
\* the nodes of the subtree under id
Reach(h, id) == {id} \cup ReachSeq(h, h[id].kids)
ReachSeq(h, ids) ==
    IF ids = <<>> THEN {} ELSE Reach(h, Head(ids)) \cup ReachSeq(h, Tail(ids))

\* the live tree with its node identities
Tree(h) == [i \in Reach(h, Root) |-> h[i]]

Seg(node, i) == IF node.k = "arr" THEN Itoa(i - 1) ELSE node.keys[i]

RECURSIVE findNodePathRecursive(_, _, _)
RECURSIVE findInChildren(_, _, _, _)
findNodePathRecursive(h, parentNode, desiredNode) ==
    IF parentNode = desiredNode THEN [found |-> TRUE, segs |-> <<>>]
    ELSE IF h[parentNode].k \in {"arr", "obj"}
         THEN findInChildren(h, parentNode, 1, desiredNode)
         ELSE [found |-> FALSE, segs |-> <<>>]
findInChildren(h, parentNode, i, desiredNode) ==
    IF i > Len(h[parentNode].kids) THEN [found |-> FALSE, segs |-> <<>>]
    ELSE LET r == findNodePathRecursive(h, h[parentNode].kids[i], desiredNode)
         IN IF r.found
            THEN [found |-> TRUE, segs |-> <<Seg(h[parentNode], i)>> \o r.segs]
            ELSE findInChildren(h, parentNode, i + 1, desiredNode)

\* a path is the sequence of its segments; "" (the root, and "not found") is <<>>
findNodePath(h, parentNode, desiredNode) ==
    IF parentNode = desiredNode THEN <<>>
    ELSE LET r == findNodePathRecursive(h, parentNode, desiredNode)
         IN IF r.found THEN r.segs ELSE <<>>

----------------------------------------------------------------------------
(* The staged clone: edits of the orderedmap document.                     *)
(* Clone() is a JSON round trip, so the staged document is a value of its  *)
(* own and nested objects are OrderedMap values, which the traversal       *)
(* copies (foundMap = &om).                                                *)

Fail(v) == [ok |-> FALSE, v |-> v]
Done(v) == [ok |-> TRUE, v |-> v]

ReplaceAt(s, i, x) == [s EXCEPT ![i] = x]
InsertAt(s, i, x) == SubSeq(s, 1, i) \o <<x>> \o SubSeq(s, i + 1, Len(s))
RemoveAt(s, i) == SubSeq(s, 1, i) \o SubSeq(s, i + 2, Len(s))

\* OrderedMap.Set on foundMap: an existing key is written through the shared
\* values map; a new key is appended to the key list of foundMap, which only
\* for the top-level map is the key list of the document
MapSet(obj, key, value, top) ==
    LET i == KeyIndex(obj.keys, key)
    IN IF i > 0 THEN [obj EXCEPT !.kids = ReplaceAt(obj.kids, i, value)]
       ELSE IF top THEN [obj EXCEPT !.keys = Append(obj.keys, key),
                                    !.kids = Append(obj.kids, value)]
       ELSE obj

\* the statements after the traversal loop, on the last path element
jsonLeaf(obj, key, top, e) ==
    IF e.op = "set" THEN Done(MapSet(obj, key, e.value, top))
    ELSE LET i == KeyIndex(obj.keys, key)
         IN IF i = 0 THEN Fail(obj)
            ELSE LET list == obj.kids[i]
                 IN IF list.k # "arr" THEN Fail(obj)
                    ELSE IF e.op = "insert"
                    THEN IF e.index < 0 \/ e.index > Len(list.kids) THEN Fail(obj)
                         ELSE Done(MapSet(obj, key,
                                          JArr(InsertAt(list.kids, e.index, e.value)), top))
                    ELSE IF e.index < 0 \/ e.index >= Len(list.kids) THEN Fail(obj)
                         ELSE Done(MapSet(obj, key, JArr(RemoveAt(list.kids, e.index)), top))

RECURSIVE jsonWalk(_, _, _, _, _)
\* the traversal loop over splited_path[0 .. len-2]; i is the next element
jsonWalk(obj, segs, i, top, e) ==
    IF i > Len(segs) - 1
    THEN jsonLeaf(obj, IF segs = <<>> THEN "" ELSE segs[Len(segs)], top, e)
    ELSE LET ki == KeyIndex(obj.keys, segs[i])
         IN IF ki = 0 THEN Fail(obj)
            ELSE LET found == obj.kids[ki]
                 IN IF found.k = "obj"
                    THEN LET r == jsonWalk(found, segs, i + 1, FALSE, e)
                         IN IF r.ok THEN Done([obj EXCEPT !.kids = ReplaceAt(obj.kids, ki, r.v)])
                            ELSE Fail(obj)
                    ELSE IF found.k = "arr"
                    THEN LET p == ParseInt(segs[i + 1])
                         IN IF ~p.ok \/ p.v >= Len(found.kids) THEN Fail(obj)
                            ELSE IF found.kids[p.v + 1].k # "obj" THEN Fail(obj)
                            ELSE LET r == jsonWalk(found.kids[p.v + 1], segs, i + 2, FALSE, e)
                                 IN IF r.ok
                                    THEN Done([obj EXCEPT !.kids =
                                               ReplaceAt(obj.kids, ki,
                                                 JArr(ReplaceAt(found.kids, p.v + 1, r.v)))])
                                    ELSE Fail(obj)
                    ELSE Fail(obj)

jsonSetByPath(jsonMap, path, value) ==
    jsonWalk(jsonMap, path, 1, TRUE, [op |-> "set", index |-> 0, value |-> value])

jsonRemoveByPath(jsonMap, path, index) ==
    jsonWalk(jsonMap, path, 1, TRUE, [op |-> "remove", index |-> index, value |-> JNum(0)])

jsonInsertByPath(jsonMap, path, index, value) ==
    jsonWalk(jsonMap, path, 1, TRUE, [op |-> "insert", index |-> index, value |-> value])

----------------------------------------------------------------------------
(* Errors.  t is the dynamic type of the error value: "nil", "error" (an   *)
(* errors.New / fmt.Errorf value without %w, or whatever a handler         *)
(* returns), "wrapError" (fmt.Errorf with %w around an error of type       *)
(* wraps) or "ConflictError".                                              *)

JNull == [k |-> "null", n |-> 0, keys |-> <<>>, kids |-> <<>>]

Nil == [t |-> "nil", msg |-> "", yours |-> 0, current |-> 0, wraps |-> "nil", value |-> JNull]

Error(msg) == [Nil EXCEPT !.t = "error", !.msg = msg]

WrapError(msg, inner) ==
    [Nil EXCEPT !.t = "wrapError", !.msg = msg, !.wraps = inner.t,
                !.yours = inner.yours, !.current = inner.current]

NewConflictError(operation, yourVersion, currentVersion) ==
    [Nil EXCEPT !.t = "ConflictError", !.msg = operation,
                !.yours = yourVersion, !.current = currentVersion]

IsConflictError(err) == err.t = "ConflictError"

GetConflictError(err) == err.t = "ConflictError"

----------------------------------------------------------------------------
(* Validation *)

\* validate(): the schema the source is constructed with requires "name" to be
\* a number and "items" to be an array of objects or the number 2 that
\* contains the number 2
SchemaOK(d) ==
    LET ni == KeyIndex(d.keys, "name")
        ii == KeyIndex(d.keys, "items")
    IN /\ d.k = "obj"
       /\ ni > 0 /\ d.kids[ni].k = "num"
       /\ ii > 0 /\ d.kids[ii].k = "arr"
       /\ \E j \in 1 .. Len(d.kids[ii].kids) : d.kids[ii].kids[j] = JNum(2)
       /\ \A j \in 1 .. Len(d.kids[ii].kids) :
             \/ d.kids[ii].kids[j].k = "obj"
             \/ d.kids[ii].kids[j] = JNum(2)

validateJSONAgainstSchema(obj) ==
    IF SchemaOK(obj) THEN Nil ELSE Error("schema")

\* two validatorFuncs: one in the style of ValidateRange, which rejects a new
\* value that is not a number, and one that rejects whatever it is given
RunValidator(tag, newValue) ==
    IF tag = "number" /\ newValue.k # "num" THEN Error("not a number")
    ELSE IF tag = "deny" THEN Error("denied")
    ELSE Nil

RECURSIVE RunValidators(_, _)
RunValidators(vs, newValue) ==
    IF vs = <<>> THEN Nil
    ELSE LET e == RunValidator(Head(vs), newValue)
         IN IF e.t # "nil" THEN e ELSE RunValidators(Tail(vs), newValue)

\* customValidator.Validate
Validate(validators, path, newValue) ==
    IF path \notin DOMAIN validators THEN Nil
    ELSE RunValidators(validators[path], newValue)

----------------------------------------------------------------------------
(* Registry and path lookup.  m is the Manager: [heap, modifiables,        *)
(* version, doc, pathCacheValid, pathCache, history, validators,           *)
(* validationService].                                                     *)

Modifiable(type, path, node, handler) ==
    [Type |-> type, Path |-> path, Node |-> node, Handler |-> handler]

\* the lookup by path alone
findModifiableLocked_AnyKind(mods, type, path) ==
    IF \E i \in 1 .. Len(mods) : mods[i].Path = path
    THEN CHOOSE i \in 1 .. Len(mods) :
            /\ mods[i].Path = path
            /\ \A j \in 1 .. (i - 1) : mods[j].Path # path
    ELSE 0

\* index of the first entry with that type and path, 0 if there is none
findModifiableLocked(mods, type, path) ==
    IF \E i \in 1 .. Len(mods) : mods[i].Type = type /\ mods[i].Path = path
    THEN CHOOSE i \in 1 .. Len(mods) :
            /\ mods[i].Type = type /\ mods[i].Path = path
            /\ \A j \in 1 .. (i - 1) : ~(mods[j].Type = type /\ mods[j].Path = path)
    ELSE 0

RECURSIVE buildPathCacheRecursive(_, _, _, _)
RECURSIVE buildPathCacheKids(_, _, _, _, _)
\* variant: the node itself is not recorded
buildPathCacheRecursive_ChildrenOnly(h, cache, node, path) ==
    buildPathCacheKids(h, cache, node, 1, path)

buildPathCacheRecursive(h, cache, node, path) ==
    buildPathCacheKids(h, [i \in DOMAIN cache \cup {node} |->
                              IF i = node THEN path ELSE cache[i]], node, 1, path)
buildPathCacheKids(h, cache, node, i, path) ==
    IF i > Len(h[node].kids) THEN cache
    ELSE buildPathCacheKids(h,
             buildPathCacheRecursive(h, cache, h[node].kids[i],
                                     Append(path, Seg(h[node], i))),
             node, i + 1, path)

rebuildPathCache(m) ==
    [m EXCEPT !.pathCache = buildPathCacheRecursive(m.heap, << >>, Root, <<>>),
              !.pathCacheValid = TRUE]

invalidatePathCache(m) ==
    [m EXCEPT !.pathCacheValid = FALSE, !.pathCache = << >>]

findNodePathCached(m, n) ==
    LET c == IF m.pathCacheValid THEN m.pathCache ELSE rebuildPathCache(m).pathCache
    IN IF n \in DOMAIN c THEN c[n] ELSE <<>>

findNodePathLocked(m, n) ==
    IF m.pathCacheValid THEN findNodePathCached(m, n)
    ELSE findNodePath(m.heap, Root, n)

\* variant: the registry is left as it is
updateModifiablesLocked_KeepsRegistry(m) == m

RECURSIVE FilterMods(_, _)
FilterMods(m, mods) ==
    IF mods = <<>> THEN <<>>
    ELSE LET mod == Head(mods)
             path == findNodePathLocked(m, mod.Node)
         IN (IF path # <<>> THEN <<[mod EXCEPT !.Path = path]>> ELSE <<>>)
            \o FilterMods(m, Tail(mods))

updateModifiablesLocked(m) ==
    [m EXCEPT !.modifiables = FilterMods(m, m.modifiables)]

ChangeEvent(operation, path, index, version) ==
    [Operation |-> operation, Path |-> path, Index |-> index, Version |-> version]

\* history.NewChangeHistory(1000)
HistoryMaxSize == 1000

\* the size NewChangeHistory takes when it is given none
DefaultMaxSize == 1000

NewChangeHistory(maxSize) ==
    [events |-> <<>>, maxSize |-> IF maxSize <= 0 THEN DefaultMaxSize ELSE maxSize,
     eventIndex |-> 0]

\* ChangeHistory.Add
HistoryAdd(ch, event) ==
    IF Len(ch.events) < ch.maxSize
    THEN [ch EXCEPT !.events = Append(@, event)]
    ELSE [ch EXCEPT !.events = ReplaceAt(@, ch.eventIndex + 1, event),
                    !.eventIndex = (@ + 1) % ch.maxSize]

\* ChangeHistory.GetAll
HistoryGetAll(ch) ==
    IF Len(ch.events) < ch.maxSize THEN ch.events
    ELSE SubSeq(ch.events, ch.eventIndex + 1, Len(ch.events))
         \o SubSeq(ch.events, 1, ch.eventIndex)

\* variant: the index of the oldest event is kept
HistoryClear_KeepsIndex(ch) == [ch EXCEPT !.events = <<>>]

\* ChangeHistory.Clear
HistoryClear(ch) == [ch EXCEPT !.events = <<>>, !.eventIndex = 0]

addHistoryEvent(m, event) ==
    IF m.historyEnabled THEN [m EXCEPT !.history = HistoryAdd(@, event)] ELSE m

----------------------------------------------------------------------------
(* The query engine (i_source.go).  A query is the sequence of the parts   *)
(* strings.Split finds between its "/"s.  A part is its text, whether the  *)
(* text stood between "[" and "]", and, for "[?...]", the expression: the  *)
(* field, the operator and the text of the literal.  A path is a query of  *)
(* plain parts.                                                            *)

\* the text of a literal: decimal digits (num) or any other text
NumText(n) == [num |-> TRUE, n |-> n, s |-> ""]
WordText(s) == [num |-> FALSE, n |-> 0, s |-> s]

NoExpr == [field |-> "", op |-> "", text |-> WordText("")]

Key(s) == [br |-> FALSE, txt |-> s, expr |-> NoExpr]
Bracket(inner) == [br |-> TRUE, txt |-> inner, expr |-> NoExpr]
FilterPart(field, op, text) ==
    [br |-> TRUE, txt |-> "?", expr |-> [field |-> field, op |-> op, text |-> text]]

\* the parts of a path
PathParts(path) == [i \in 1 .. Len(path) |-> Key(path[i])]

Operators == {">=", "<=", "==", "!=", ">", "<"}

NoCondition == [Field |-> "", Operator |-> "", Value |-> JNull]

\* parseFilterCondition: the literal is a number if it parses as one, a
\* boolean if it is true or false, a string otherwise
parseFilterCondition(expr) ==
    IF expr.op \notin Operators THEN [ok |-> FALSE, cond |-> NoCondition]
    ELSE [ok |-> TRUE,
          cond |-> [Field |-> expr.field, Operator |-> expr.op,
                    Value |-> IF expr.text.num THEN JNum(expr.text.n)
                              ELSE IF expr.text.s = "true" THEN JBool(TRUE)
                              ELSE IF expr.text.s = "false" THEN JBool(FALSE)
                              ELSE JStr(expr.text.s)]]

querySegment(type, value, cond) == [Type |-> type, Value |-> value, Condition |-> cond]

\* the segment of one part (the loop body of parseQuerySegments)
parseQuerySegment(part) ==
    IF ~part.br /\ part.txt = "*" THEN [ok |-> TRUE, seg |-> querySegment("wildcard", "", NoCondition)]
    ELSE IF part.br
    THEN IF part.txt = "*" THEN [ok |-> TRUE, seg |-> querySegment("array", "*", NoCondition)]
         ELSE IF part.txt = "?"
         THEN LET c == parseFilterCondition(part.expr)
              IN [ok |-> c.ok, seg |-> querySegment("filter", "", c.cond)]
         ELSE [ok |-> TRUE, seg |-> querySegment("array", part.txt, NoCondition)]
    ELSE [ok |-> TRUE, seg |-> querySegment("key", part.txt, NoCondition)]

RECURSIVE parseQuerySegments(_)
\* parseQuerySegments: empty parts are skipped
parseQuerySegments(query) ==
    IF query = <<>> THEN [ok |-> TRUE, segments |-> <<>>]
    ELSE IF ~Head(query).br /\ Head(query).txt = "" THEN parseQuerySegments(Tail(query))
    ELSE LET s == parseQuerySegment(Head(query))
             r == parseQuerySegments(Tail(query))
         IN IF s.ok /\ r.ok THEN [ok |-> TRUE, segments |-> <<s.seg>> \o r.segments]
            ELSE [ok |-> FALSE, segments |-> <<>>]

toFloat64(val) == [ok |-> val.k = "num", v |-> val.n]

compareNumeric(left, op, right) ==
    LET l == toFloat64(left)
        r == toFloat64(right)
    IN IF ~l.ok \/ ~r.ok THEN FALSE
       ELSE IF op = ">" THEN l.v > r.v
       ELSE IF op = "<" THEN l.v < r.v
       ELSE IF op = ">=" THEN l.v >= r.v
       ELSE IF op = "<=" THEN l.v <= r.v
       ELSE FALSE

\* compareEqual: false unless both are strings, both numbers or both booleans
compareEqual(left, right) ==
    /\ left.k \in {"str", "num", "bool"}
    /\ right.k = left.k
    /\ left = right

\* variant: a difference of kind is no difference
evaluateCondition_SameKindOnly(left, op, right) ==
    IF op = "==" THEN compareEqual(left, right)
    ELSE IF op = "!=" THEN left.k = right.k /\ ~compareEqual(left, right)
    ELSE IF op \in {">", "<", ">=", "<="} THEN compareNumeric(left, op, right)
    ELSE FALSE

evaluateCondition(left, op, right) ==
    IF op = "==" THEN compareEqual(left, right)
    ELSE IF op = "!=" THEN ~compareEqual(left, right)
    ELSE IF op \in {">", "<", ">=", "<="} THEN compareNumeric(left, op, right)
    ELSE FALSE

\* variant: every object of the array matches
matchesFilter_IgnoresCondition(h, node, cond) == h[node].k = "obj"

\* matchesFilter: the field's value is a string, a number or a boolean
matchesFilter(h, node, cond) ==
    IF h[node].k # "obj" THEN FALSE
    ELSE LET i == KeyIndex(h[node].keys, cond.Field)
         IN IF i = 0 THEN FALSE
            ELSE LET fieldNode == h[h[node].kids[i]]
                 IN IF fieldNode.k \in {"str", "num", "bool"}
                    THEN evaluateCondition(fieldNode, cond.Operator, cond.Value)
                    ELSE FALSE

\* the orders in which a range over a Go map hands out its n members
Perms(n) == {f \in [1 .. n -> 1 .. n] : \A i, j \in 1 .. n : f[i] = f[j] => i = j}

ObjectNodes(h) == {n \in Reach(h, Root) : h[n].k = "obj"}

RECURSIVE OrdersOf(_, _)
OrdersOf(h, nodes) ==
    IF nodes = {} THEN {<< >>}
    ELSE LET n == CHOOSE x \in nodes : TRUE
         IN {(n :> p) @@ o : p \in Perms(Len(h[n].kids)), o \in OrdersOf(h, nodes \ {n})}

\* one iteration order for each object of the tree: what the runtime picks
\* for the ranges of one call
Orders(h) == OrdersOf(h, ObjectNodes(h))

\* the order in which the members were inserted
InsertionOrder(h) == [n \in ObjectNodes(h) |-> [i \in 1 .. Len(h[n].kids) |-> i]]

Ascending(n) == [i \in 1 .. n |-> i]

\* variant: a mismatch yields no results and no error
QueryError_NoResults == [ok |-> TRUE, results |-> <<>>]

QueryError == [ok |-> FALSE, results |-> <<>>]
Found(results) == [ok |-> TRUE, results |-> results]

RECURSIVE executeQuery(_, _, _, _, _)
RECURSIVE queryEach(_, _, _, _, _, _)
\* executeQuery: the matches, each with its path and the node matched; order
\* is the iteration order of the objects.  (The DeepCopy of each match is
\* made by queryLocked, in the order of the matches.)
executeQuery(h, node, currentPath, segments, order) ==
    IF segments = <<>> THEN Found(<<[Path |-> currentPath, Node |-> node]>>)
    ELSE LET segment == Head(segments)
             remaining == Tail(segments)
         IN IF segment.Type = "key"
            THEN IF h[node].k # "obj" THEN QueryError
                 ELSE LET i == KeyIndex(h[node].keys, segment.Value)
                      IN IF i = 0 THEN QueryError
                         ELSE executeQuery(h, h[node].kids[i],
                                           Append(currentPath, segment.Value),
                                           remaining, order)
            ELSE IF segment.Type = "wildcard"
            THEN IF h[node].k # "obj" THEN QueryError
                 ELSE Found(queryEach(h, node, order[node], currentPath, remaining, order))
            ELSE IF segment.Type = "array"
            THEN IF h[node].k # "arr" THEN QueryError
                 ELSE IF segment.Value = "*"
                 THEN Found(queryEach(h, node, Ascending(Len(h[node].kids)),
                                      currentPath, remaining, order))
                 ELSE LET idx == ParseInt(segment.Value)
                      IN IF ~idx.ok THEN QueryError
                         ELSE IF idx.v < 0 \/ idx.v >= Len(h[node].kids) THEN QueryError
                         ELSE executeQuery(h, h[node].kids[idx.v + 1],
                                           Append(currentPath, Itoa(idx.v)),
                                           remaining, order)
            ELSE IF segment.Type = "filter"
            THEN IF h[node].k # "arr" THEN QueryError
                 ELSE LET Matches(i) == matchesFilter(h, h[node].kids[i], segment.Condition)
                      IN Found(queryEach(h, node,
                                         SelectSeq(Ascending(Len(h[node].kids)), Matches),
                                         currentPath, remaining, order))
            ELSE Found(<<>>)
\* the loop over the children at the positions is: a child whose query
\* fails adds nothing
queryEach(h, node, is, currentPath, remaining, order) ==
    IF is = <<>> THEN <<>>
    ELSE LET i == Head(is)
             r == executeQuery(h, h[node].kids[i], Append(currentPath, Seg(h[node], i)),
                               remaining, order)
         IN (IF r.ok THEN r.results ELSE <<>>)
            \o queryEach(h, node, Tail(is), currentPath, remaining, order)

\* variant: the copy shares the children of the node
DeepCopy_SharesChildren(h, id) ==
    LET c == FreshId(h)
    IN [h |-> [h EXCEPT ![c] = h[id]], id |-> c]

RECURSIVE DeepCopy(_, _)
RECURSIVE DeepCopyEach(_, _)
\* Node.DeepCopy: a new node for the node and for each node under it
DeepCopy(h, id) ==
    LET c == FreshId(h)
        h1 == [h EXCEPT ![c] = [h[id] EXCEPT !.kids = <<>>]]
        r == DeepCopyEach(h1, h[id].kids)
    IN [h |-> [r.h EXCEPT ![c].kids = r.ids], id |-> c]
DeepCopyEach(h, ids) ==
    IF ids = <<>> THEN [h |-> h, ids |-> <<>>]
    ELSE LET a == DeepCopy(h, Head(ids))
             b == DeepCopyEach(a.h, Tail(ids))
         IN [h |-> b.h, ids |-> <<a.id>> \o b.ids]

RECURSIVE CopyResults(_, _)
\* the QueryResults of the matches: Path, and Node the DeepCopy of the match
CopyResults(h, matches) ==
    IF matches = <<>> THEN [h |-> h, results |-> <<>>]
    ELSE LET a == DeepCopy(h, Head(matches).Node)
             b == CopyResults(a.h, Tail(matches))
         IN [h |-> b.h,
             results |-> <<[Path |-> Head(matches).Path, Node |-> a.id]>> \o b.results]

\* the results of the matches r, and the heap that holds their nodes
Copied(r, c) == [ok |-> r.ok, results |-> c.results, h |-> c.h]
Results(h, r) == Copied(r, CopyResults(h, r.results))

\* the matches of the parsed query p
Execute(h, p, order) ==
    IF p.ok THEN executeQuery(h, Root, <<>>, p.segments, order) ELSE QueryError

\* queryLocked: the results, and the heap that holds their nodes.  The path
\* "/" is the path of segments <<"">>.
queryLocked(m, query, order) ==
    IF query = <<>> \/ query = <<Key("")>>
    THEN Results(m.heap, Found(<<[Path |-> <<"">>, Node |-> Root]>>))
    ELSE Results(m.heap, Execute(m.heap, parseQuerySegments(query), order))

\* Query
Query(m, query, order) == queryLocked(m, query, order)

\* QueryOne: the first result, or an error if there is none
QueryOne(m, query, order) ==
    LET r == Query(m, query, order)
    IN IF r.ok /\ r.results # <<>> THEN [r EXCEPT !.results = <<r.results[1]>>]
       ELSE [ok |-> FALSE, results |-> <<>>, h |-> m.heap]

\* the predicates the callers of FindAll pass
Predicates == {"number", "string"}

Holds(predicate, node) ==
    IF predicate = "number" THEN node.k = "num" ELSE node.k = "str"

RECURSIVE findAllRecursive(_, _, _, _, _)
RECURSIVE findAllEach(_, _, _, _, _, _)
findAllRecursive(h, node, path, predicate, order) ==
    (IF Holds(predicate, h[node]) THEN <<[Path |-> path, Node |-> node]>> ELSE <<>>)
    \o (IF h[node].k = "obj" THEN findAllEach(h, node, order[node], path, predicate, order)
        ELSE IF h[node].k = "arr"
        THEN findAllEach(h, node, Ascending(Len(h[node].kids)), path, predicate, order)
        ELSE <<>>)
findAllEach(h, node, is, path, predicate, order) ==
    IF is = <<>> THEN <<>>
    ELSE findAllRecursive(h, h[node].kids[Head(is)], Append(path, Seg(h[node], Head(is))),
                          predicate, order)
         \o findAllEach(h, node, Tail(is), path, predicate, order)

\* FindAll
FindAll(m, predicate, order) ==
    LET c == CopyResults(m.heap, findAllRecursive(m.heap, Root, <<>>, predicate, order))
    IN [ok |-> TRUE, results |-> c.results, h |-> c.h]

\* the value of the first result, if there is one
FirstOf(r) ==
    IF r.ok /\ r.results # <<>>
    THEN [ok |-> TRUE, value |-> Content(r.h, r.results[1].Node)]
    ELSE [ok |-> FALSE, value |-> JNull]

\* the value of the first result of a query by path
FirstValue(m, path) == FirstOf(queryLocked(m, PathParts(path), InsertionOrder(m.heap)))

----------------------------------------------------------------------------
(* The mutation protocol.  Each of insertLocked, removeLocked and          *)
(* replaceLocked is two operators: the statements up to the handler call   *)
(* (...A) and the statements after it (finishLocked).  l holds the locals  *)
(* that live across the handler call.                                      *)

NoLocals ==
    [op |-> "none", path |-> <<>>, index |-> 0, target |-> Root, backup |-> FreeNode,
     staged |-> JNull, hnode |-> Root, handler |-> FALSE]

\* variant: a refused call is recorded in the history
Return_RecordsHistory(err, m) ==
    [err |-> err,
     m |-> addHistoryEvent(m, ChangeEvent("refused", <<>>, 0, m.version)),
     l |-> NoLocals]

Return(err, m) == [err |-> err, m |-> m, l |-> NoLocals]

ArrayNode(kids) == [k |-> "arr", n |-> 0, keys |-> <<>>, kids |-> kids]

\* variant: the array gets a second reference to one of its elements (or to
\* itself, if it is empty) instead of the parsed node
InsertMutate_SharesElement(m, target, index, value) ==
    LET a == parseNode(m.heap, value)
        old == m.heap[target].kids
        dup == IF old = <<>> THEN target ELSE old[1]
    IN [heap |-> [a.h EXCEPT ![target] = ArrayNode(InsertAt(old, index, dup))],
        node |-> a.id]

\* the in-memory edit of insertLocked
InsertMutate(m, target, index, value) ==
    LET a == parseNode(m.heap, value)
    IN [heap |-> [a.h EXCEPT ![target] = ArrayNode(InsertAt(m.heap[target].kids, index, a.id))],
        node |-> a.id]

insertLockedA(m, path, index, value) ==
    LET mi == findModifiableLocked(m.modifiables, "Insertable", path)
    IN IF mi = 0 THEN Return(Error("not modifiable"), m)
       ELSE LET mod == m.modifiables[mi]
                node == m.heap[mod.Node]
            IN IF node.k # "arr" THEN Return(Error("node is not array"), m)
               ELSE IF index < 0 \/ index > Len(node.kids)
               THEN Return(Error("index out of bounds"), m)
               ELSE LET cv == Validate(m.validators, path, value)
                        staged == jsonInsertByPath(m.doc, path, index, value)
                    IN IF cv.t # "nil"
                       THEN Return(WrapError("custom validation failed", cv), m)
                       ELSE IF ~staged.ok
                       THEN Return(WrapError("failed to insert", Error("path")), m)
                       ELSE IF validateJSONAgainstSchema(staged.v).t # "nil"
                       THEN Return(WrapError("validation failed", Error("schema")), m)
                       ELSE LET mu == InsertMutate(m, mod.Node, index, value)
                            IN [err |-> Nil,
                                m |-> [m EXCEPT !.heap = mu.heap],
                                l |-> [op |-> "insert", path |-> path, index |-> index,
                                       target |-> mod.Node, backup |-> node,
                                       staged |-> staged.v, hnode |-> mu.node,
                                       handler |-> mod.Handler]]

\* the in-memory edit of removeLocked
RemoveMutate(m, target, index) ==
    [m.heap EXCEPT ![target] = ArrayNode(RemoveAt(m.heap[target].kids, index))]

\* variant: the staged document is handed to the source before the handler runs
removeLockedA_PersistsBeforeHandler(m, path, index) ==
    LET mi == findModifiableLocked(m.modifiables, "Removable", path)
    IN IF mi = 0 THEN Return(Error("not modifiable"), m)
       ELSE LET mod == m.modifiables[mi]
                node == m.heap[mod.Node]
            IN IF node.k # "arr" THEN Return(Error("node is not array"), m)
               ELSE IF index < 0 \/ index >= Len(node.kids)
               THEN Return(Error("index out of bounds"), m)
               ELSE LET staged == jsonRemoveByPath(m.doc, path, index)
                    IN IF ~staged.ok
                       THEN Return(WrapError("failed to remove", Error("path")), m)
                       ELSE IF validateJSONAgainstSchema(staged.v).t # "nil"
                       THEN Return(WrapError("validation failed", Error("schema")), m)
                       ELSE [err |-> Nil,
                             m |-> [m EXCEPT !.heap = RemoveMutate(m, mod.Node, index),
                                            !.doc = staged.v],
                             l |-> [op |-> "remove", path |-> path, index |-> index,
                                    target |-> mod.Node, backup |-> node,
                                    staged |-> staged.v, hnode |-> node.kids[index + 1],
                                    handler |-> mod.Handler]]

removeLockedA(m, path, index) ==
    LET mi == findModifiableLocked(m.modifiables, "Removable", path)
    IN IF mi = 0 THEN Return(Error("not modifiable"), m)
       ELSE LET mod == m.modifiables[mi]
                node == m.heap[mod.Node]
            IN IF node.k # "arr" THEN Return(Error("node is not array"), m)
               ELSE IF index < 0 \/ index >= Len(node.kids)
               THEN Return(Error("index out of bounds"), m)
               ELSE LET staged == jsonRemoveByPath(m.doc, path, index)
                    IN IF ~staged.ok
                       THEN Return(WrapError("failed to remove", Error("path")), m)
                       ELSE IF validateJSONAgainstSchema(staged.v).t # "nil"
                       THEN Return(WrapError("validation failed", Error("schema")), m)
                       ELSE [err |-> Nil,
                             m |-> [m EXCEPT !.heap = RemoveMutate(m, mod.Node, index)],
                             l |-> [op |-> "remove", path |-> path, index |-> index,
                                    target |-> mod.Node, backup |-> node,
                                    staged |-> staged.v, hnode |-> node.kids[index + 1],
                                    handler |-> mod.Handler]]

\* the in-memory edit of replaceLocked: *mod.Node = *newNode
ReplaceMutate(m, target, value) ==
    LET a == parseNode(m.heap, value)
    IN [a.h EXCEPT ![target] = a.h[a.id]]

\* variant: the node is overwritten before the staged document is validated
replaceLockedA_EditsBeforeValidation(m, path, value) ==
    LET mi == findModifiableLocked(m.modifiables, "Replaceable", path)
    IN IF mi = 0 THEN Return(Error("not modifiable"), m)
       ELSE LET mod == m.modifiables[mi]
                cv == Validate(m.validators, path, value)
                staged == jsonSetByPath(m.doc, path, value)
                edited == [m EXCEPT !.heap = ReplaceMutate(m, mod.Node, value)]
            IN IF cv.t # "nil"
               THEN Return(WrapError("custom validation failed", cv), m)
               ELSE IF ~staged.ok
               THEN Return(WrapError("failed to set", Error("path")), m)
               ELSE IF validateJSONAgainstSchema(staged.v).t # "nil"
               THEN Return(WrapError("validation failed", Error("schema")), edited)
               ELSE [err |-> Nil,
                     m |-> edited,
                     l |-> [op |-> "replace", path |-> path, index |-> 0,
                            target |-> mod.Node, backup |-> m.heap[mod.Node],
                            staged |-> staged.v, hnode |-> mod.Node,
                            handler |-> mod.Handler]]

replaceLockedA(m, path, value) ==
    LET mi == findModifiableLocked(m.modifiables, "Replaceable", path)
    IN IF mi = 0 THEN Return(Error("not modifiable"), m)
       ELSE LET mod == m.modifiables[mi]
                cv == Validate(m.validators, path, value)
                staged == jsonSetByPath(m.doc, path, value)
            IN IF cv.t # "nil"
               THEN Return(WrapError("custom validation failed", cv), m)
               ELSE IF ~staged.ok
               THEN Return(WrapError("failed to set", Error("path")), m)
               ELSE IF validateJSONAgainstSchema(staged.v).t # "nil"
               THEN Return(WrapError("validation failed", Error("schema")), m)
               ELSE [err |-> Nil,
                     m |-> [m EXCEPT !.heap = ReplaceMutate(m, mod.Node, value)],
                     l |-> [op |-> "replace", path |-> path, index |-> 0,
                            target |-> mod.Node, backup |-> m.heap[mod.Node],
                            staged |-> staged.v, hnode |-> mod.Node,
                            handler |-> mod.Handler]]

\* variant: the backup is not restored
Rollback_Skipped(m, l) == m

\* rollback: *mod.Node = Node{oldArray} / *mod.Node = oldNode
Rollback(m, l) == [m EXCEPT !.heap[l.target] = l.backup]

\* variant: the event carries the version the commit started from
Commit_RecordsOldVersion(m, l) ==
    LET m1 == [m EXCEPT !.version = @ + 1]
        m2 == updateModifiablesLocked(invalidatePathCache(m1))
    IN addHistoryEvent(m2, ChangeEvent(l.op, l.path, l.index, m.version))

\* m.version++ ; invalidatePathCache ; updateModifiablesLocked ; addHistoryEvent
Commit(m, l) ==
    LET m1 == [m EXCEPT !.version = @ + 1]
        m2 == updateModifiablesLocked(invalidatePathCache(m1))
    IN addHistoryEvent(m2, ChangeEvent(l.op, l.path, l.index, m2.version))

\* variant: the version is incremented before Source.setConfig is called
finishLocked_VersionBeforePersist(m, l, herr, perr) ==
    IF l.handler /\ herr THEN [err |-> Error("handler"), m |-> Rollback(m, l)]
    ELSE IF perr
    THEN [err |-> WrapError("failed to persist config", Error("setConfig")),
          m |-> Rollback([m EXCEPT !.version = @ + 1], l)]
    ELSE [err |-> Nil, m |-> Commit([m EXCEPT !.doc = l.staged], l)]

\* variant: the edit is kept when the handler fails
finishLocked_KeepsEditOnHandlerError(m, l, herr, perr) ==
    IF l.handler /\ herr THEN [err |-> Error("handler"), m |-> m]
    ELSE IF perr
    THEN [err |-> WrapError("failed to persist config", Error("setConfig")),
          m |-> Rollback(m, l)]
    ELSE [err |-> Nil, m |-> Commit([m EXCEPT !.doc = l.staged], l)]

\* the statements after the handler call: herr is whether the handler returned
\* an error, perr whether Source.setConfig does
finishLocked(m, l, herr, perr) ==
    IF l.handler /\ herr THEN [err |-> Error("handler"), m |-> Rollback(m, l)]
    ELSE IF perr
    THEN [err |-> WrapError("failed to persist config", Error("setConfig")),
          m |-> Rollback(m, l)]
    ELSE [err |-> Nil, m |-> Commit([m EXCEPT !.doc = l.staged], l)]

----------------------------------------------------------------------------
(* Conditional operations: the version check and the ...Locked call are    *)
(* made under one Lock()                                                   *)

\* variant: the version is not compared
ConditionalInsert_Unchecked(m, path, index, expectedVersion, value) ==
    insertLockedA(m, path, index, value)

ConditionalInsert(m, path, index, expectedVersion, value) ==
    IF m.version # expectedVersion
    THEN Return(NewConflictError("insert", expectedVersion, m.version), m)
    ELSE insertLockedA(m, path, index, value)

ConditionalRemove(m, path, index, expectedVersion) ==
    IF m.version # expectedVersion
    THEN Return(NewConflictError("remove", expectedVersion, m.version), m)
    ELSE removeLockedA(m, path, index)

ConditionalReplace(m, path, expectedVersion, value) ==
    IF m.version # expectedVersion
    THEN Return(NewConflictError("replace", expectedVersion, m.version), m)
    ELSE replaceLockedA(m, path, value)

CompareAndSwap(m, path, expectedVersion, newValue) ==
    IF m.version # expectedVersion
    THEN Return([NewConflictError("compare-and-swap", expectedVersion, m.version)
                    EXCEPT !.value = FirstValue(m, path).value], m)
    ELSE replaceLockedA(m, path, newValue)

\* a call of the public API: c is [op, path, index, value, cond, exp]
Dispatch(m, c) ==
    IF c.op = "insert"
    THEN IF c.cond THEN ConditionalInsert(m, c.path, c.index, c.exp, c.value)
         ELSE insertLockedA(m, c.path, c.index, c.value)
    ELSE IF c.op = "remove"
    THEN IF c.cond THEN ConditionalRemove(m, c.path, c.index, c.exp)
         ELSE removeLockedA(m, c.path, c.index)
    ELSE IF c.op = "replace"
    THEN IF c.cond THEN ConditionalReplace(m, c.path, c.exp, c.value)
         ELSE replaceLockedA(m, c.path, c.value)
    ELSE CompareAndSwap(m, c.path, c.exp, c.value)

----------------------------------------------------------------------------
(* RetryOnConflict and OptimisticUpdate.  o holds the locals of a call of  *)
(* OptimisticUpdate: the attempt counter of the loop of RetryOnConflict,   *)
(* the version and the value the attempt read, (errs, ret) the errors its  *)
(* attempts ended in and the error the call returned, and steps the number *)
(* of critical sections the call has been through                          *)

\* DefaultRetryStrategy().MaxAttempts
MaxAttempts == 3

\* DefaultRetryStrategy().OnConflict
OnConflict(attempt, err) == attempt < 3

NoUpdate ==
    [st |-> "none", path |-> <<>>, attempt |-> 0, expectedVersion |-> 0,
     newValue |-> JNull, errs |-> <<>>, ret |-> Nil, steps |-> 0]

\* variant: every error is retried
RetryOnConflict_RetriesEveryError(o, err) ==
    LET ended == [o EXCEPT !.errs = Append(@, err)]
    IN IF err.t = "nil" THEN [ended EXCEPT !.st = "returned", !.ret = Nil]
       ELSE IF OnConflict(o.attempt + 1, err) /\ o.attempt + 1 < MaxAttempts
       THEN [ended EXCEPT !.attempt = @ + 1]
       ELSE [ended EXCEPT !.st = "returned",
                          !.ret = WrapError("operation failed after attempts", err)]

\* the body of the loop of RetryOnConflict after op returned err, and the
\* return after the loop
RetryOnConflict(o, err) ==
    LET ended == [o EXCEPT !.errs = Append(@, err)]
    IN IF err.t = "nil" THEN [ended EXCEPT !.st = "returned", !.ret = Nil]
       ELSE IF err.t # "ConflictError" THEN [ended EXCEPT !.st = "returned", !.ret = err]
       ELSE IF OnConflict(o.attempt + 1, err) /\ o.attempt + 1 < MaxAttempts
       THEN [ended EXCEPT !.attempt = @ + 1]
       ELSE [ended EXCEPT !.st = "returned",
                          !.ret = WrapError("operation failed after attempts", err)]

----------------------------------------------------------------------------
(* Registration *)

findAndSanitizeNodePathLocked(m, n) ==
    LET p == findNodePathLocked(m, n)
    IN IF p = <<>> THEN [ok |-> FALSE, p |-> p] ELSE [ok |-> TRUE, p |-> p]

Register(m, type, node, handler) ==
    LET r == findAndSanitizeNodePathLocked(m, node)
    IN IF ~r.ok THEN [err |-> Error("node has no valid path in config tree"), m |-> m]
       ELSE [err |-> Nil,
             m |-> [m EXCEPT !.modifiables = Append(@, Modifiable(type, r.p, node, handler))]]

OnInsert(m, node, handler) ==
    IF m.heap[node].k # "arr"
    THEN [err |-> Error("node must be array for insert operations"), m |-> m]
    ELSE Register(m, "Insertable", node, handler)

OnRemove(m, node, handler) ==
    IF m.heap[node].k # "arr"
    THEN [err |-> Error("node must be array for remove operations"), m |-> m]
    ELSE Register(m, "Removable", node, handler)

OnReplace(m, node, handler) == Register(m, "Replaceable", node, handler)

RECURSIVE NodeAt(_, _, _)
\* Node.At along a path: the node a caller registers
NodeAt(h, node, segs) ==
    IF segs = <<>> THEN node
    ELSE LET i == IF h[node].k = "arr" THEN ParseInt(Head(segs)).v + 1
                  ELSE KeyIndex(h[node].keys, Head(segs))
         IN NodeAt(h, h[node].kids[i], Tail(segs))

\* NewManager
NewManager(source) ==
    [heap |-> parseNode([i \in NodeIds |-> FreeNode], source).h,
     modifiables |-> <<>>,
     version |-> 1,
     doc |-> source,
     pathCacheValid |-> FALSE,
     pathCache |-> << >>,
     history |-> NewChangeHistory(HistoryMaxSize),
     historyEnabled |-> TRUE,
     validators |-> << >>,
     validationService |-> "nil"]

\* AddValidator
AddValidator(m, path, validator) ==
    [m EXCEPT !.validators =
        [q \in DOMAIN @ \cup {path} |->
            IF q \in DOMAIN @ THEN (IF q = path THEN Append(@[q], validator) ELSE @[q])
            ELSE <<validator>>]]

\* the validation services a caller configures: one whose remote end rejects
\* every document (or cannot be reached), one whose remote end accepts
Services == {"rejecting", "accepting"}

\* validationService.Validate: the verdict of the remote end on a document
ServiceValidate(service, config) ==
    IF service = "rejecting" THEN Error("validation failed") ELSE Nil

\* SetValidationService
SetValidationService(m, service) == [m EXCEPT !.validationService = service]

\* the application's set-up: the registrations and validators it installs
\* before it starts to mutate
SetUp(handlers) ==
    LET m0 == NewManager(InitDoc)
        at(p) == NodeAt(m0.heap, Root, p)
        m1 == OnInsert(m0, at(<<"items">>), handlers).m
        m2 == OnRemove(m1, at(<<"items">>), handlers).m
        m3 == OnReplace(m2, at(<<"name">>), handlers).m
        m4 == OnReplace(m3, at(<<"items", "0", "a">>), handlers).m
        m5 == OnReplace(m4, at(<<"items", "1">>), handlers).m
        m6 == OnReplace(m5, at(<<"items", "2">>), handlers).m
    IN AddValidator(m6, <<"items", "0", "a">>, "number")

----------------------------------------------------------------------------
(* State *)

VARIABLES
    heap,            \* the Node arena: m.config is the tree under Root
    modifiables,     \* m.modifiables
    version,         \* m.version
    doc,             \* the source's document, as getConfig() serialises it
    pathCacheValid,  \* m.pathCacheValid
    pathCache,       \* m.pathCache
    history,         \* m.history
    historyEnabled,  \* m.historyEnabled
    validators,      \* m.customValidator.validators
    validationService,  \* m.validationService
    pc,              \* per goroutine: "idle", or "handler" while its handler runs
    call,            \* per goroutine: the call it is in
    loc,             \* per goroutine: the locals of ...Locked across the handler
    pre,             \* per goroutine: the manager when its call took the lock
    dirty,           \* per goroutine: another writer changed the manager since
    ou,              \* per goroutine: the locals of its call of OptimisticUpdate
    ops,             \* number of calls started
    log,             \* the calls that returned nil, in the order of their return
    ev,              \* the last step: who, what and the error returned
    held,            \* per goroutine: the QueryResults it holds
    mu               \* m.mu between critical sections: its holder, or Free

mvars == <<heap, modifiables, version, doc, pathCacheValid, pathCache, history,
           historyEnabled, validators, validationService>>

vars == <<heap, modifiables, version, doc, pathCacheValid, pathCache, history,
          historyEnabled, validators, validationService, pc, call, loc, pre, dirty, ou, ops, log, ev, held, mu>>

M ==
    [heap |-> heap, modifiables |-> modifiables, version |-> version, doc |-> doc,
     pathCacheValid |-> pathCacheValid, pathCache |-> pathCache, history |-> history,
     historyEnabled |-> historyEnabled, validators |-> validators,
     validationService |-> validationService]

IsM(m) ==
    /\ heap = m.heap
    /\ modifiables = m.modifiables
    /\ version = m.version
    /\ doc = m.doc
    /\ pathCacheValid = m.pathCacheValid
    /\ pathCache = m.pathCache
    /\ history = m.history
    /\ historyEnabled = m.historyEnabled
    /\ validators = m.validators
    /\ validationService = m.validationService

SetM(m) ==
    /\ heap' = m.heap
    /\ modifiables' = m.modifiables
    /\ version' = m.version
    /\ doc' = m.doc
    /\ pathCacheValid' = m.pathCacheValid
    /\ pathCache' = m.pathCache
    /\ history' = m.history
    /\ historyEnabled' = m.historyEnabled
    /\ validators' = m.validators
    /\ validationService' = m.validationService

NoCall ==
    [op |-> "none", path |-> <<>>, index |-> 0, value |-> JNull, cond |-> FALSE, exp |-> 0]

\* what a reader of the manager can see of it
Snapshot(m) ==
    [tree |-> [i \in Reach(m.heap, Root) |-> m.heap[i]], version |-> m.version,
     modifiables |-> m.modifiables, doc |-> m.doc, history |-> m.history,
     pathCacheValid |-> m.pathCacheValid, pathCache |-> m.pathCache]

NoSnapshot == Snapshot(NewManager(JNull))

Conditional(c) == c.cond \/ c.op = "cas"

\* stale: the call is conditional and its expected version is not the version
\* the manager has when the call takes the lock; herr: the handler returned an
\* error in this step; perr: Source.setConfig did
Event(t, c, phase, err, stale, herr, perr) ==
    [t |-> t, op |-> c.op, cond |-> Conditional(c), phase |-> phase, err |-> err,
     stale |-> stale, herr |-> herr, perr |-> perr,
     exp |-> IF stale THEN c.exp ELSE 0,
     path |-> c.path, index |-> c.index, value |-> c.value]

\* m.mu when no goroutine holds it
Free == 0

\* a critical section: Lock() or RLock() returns when no goroutine holds m.mu
\* as a writer, and the Unlock() that ends the section frees it
CriticalSection == mu = Free /\ mu' = Free

\* variant: the handler is called with the lock held
HandlerLock_Held(t) == t

\* m.mu.Unlock() before the handler is called: the holder of m.mu while the
\* handler of goroutine t runs
HandlerLock(t) == Free

\* the goroutines other than t whose handler is running, when t edits the tree
Touch(t) ==
    dirty' = [u \in Threads |-> IF u = t THEN FALSE ELSE dirty[u] \/ pc[u] = "handler"]

\* the Go runtime frees the nodes no pointer leads to: neither the tree, nor the
\* registry, nor the locals of a call in flight, nor the results the callers hold
CollectWith(m, locals, results) ==
    LET roots == {Root} \cup {m.modifiables[i].Node : i \in 1 .. Len(m.modifiables)}
                 \cup {locals[t].target : t \in Threads}
                 \cup {locals[t].hnode : t \in Threads}
                 \cup UNION {{locals[t].backup.kids[i] : i \in 1 .. Len(locals[t].backup.kids)} :
                                t \in Threads}
                 \cup UNION {{results[t][i].Node : i \in 1 .. Len(results[t])} : t \in Threads}
        live == UNION {Reach(m.heap, r) : r \in roots}
    IN [m EXCEPT !.heap = [i \in DOMAIN m.heap |-> IF i \in live THEN m.heap[i] ELSE FreeNode]]

Collect(m, locals) == CollectWith(m, locals, held)

----------------------------------------------------------------------------
(* The calls the goroutines make *)

MaxLen(lens) == CHOOSE y \in lens : \A z \in lens : z <= y

\* indexes around the bounds of the arrays of the tree
Indexes == (0 - 1) .. (MaxLen({Len(heap[i].kids) : i \in Reach(heap, Root)}) + 1)

ArrayPaths == {<<"items">>}
ReplacePaths == {<<"name">>, <<"items", "0", "a">>, <<"items", "1">>, <<"items", "2">>}

PlainCalls ==
    {[NoCall EXCEPT !.op = "insert", !.path = p, !.index = i, !.value = v] :
        p \in ArrayPaths, i \in Indexes, v \in Values}
    \cup {[NoCall EXCEPT !.op = "remove", !.path = p, !.index = i] :
            p \in ArrayPaths, i \in Indexes}
    \cup {[NoCall EXCEPT !.op = "replace", !.path = p, !.value = v] :
            p \in ReplacePaths, v \in Values}
    \* a path registered for another kind only
    \cup {[NoCall EXCEPT !.op = "insert", !.path = <<"name">>, !.value = JNum(7)],
          [NoCall EXCEPT !.op = "remove", !.path = <<"name">>],
          [NoCall EXCEPT !.op = "replace", !.path = <<"items">>, !.value = JNum(7)]}

\* the conditional calls of a menu: with the current version
FreshCalls(plain) ==
    {[c EXCEPT !.cond = TRUE, !.exp = version] : c \in plain}
    \cup {[c EXCEPT !.op = "cas", !.exp = version] : c \in {d \in plain : d.op = "replace"}}

\* and with a stale one (one call of each operation: the arguments do not
\* matter then)
StaleCalls ==
    {[NoCall EXCEPT !.op = o, !.path = p, !.value = JNum(7), !.cond = TRUE,
                    !.exp = version - 1] :
        o \in {"insert", "remove"}, p \in ArrayPaths}
    \cup {[NoCall EXCEPT !.op = o, !.path = p, !.value = JNum(7), !.cond = o # "cas",
                         !.exp = version - 1] :
            o \in {"replace", "cas"}, p \in {<<"name">>, <<"items", "1">>}}

\* the calls of the goroutines that run concurrently
ConcPlainCalls ==
    {c \in PlainCalls :
        \/ c.op = "insert" /\ c.path = <<"items">> /\ c.index = 0
        \/ c.op = "remove" /\ c.path = <<"items">> /\ c.index = 0
        \/ c.op = "replace" /\ c.path = <<"name">>}

\* and their calls at the far end of the array: an append and the removal of
\* the last element
ConcEndCalls ==
    {c \in PlainCalls :
        \/ c.op = "insert" /\ c.path = <<"items">> /\ c.index = MaxLen(Indexes) - 1
                /\ c.value = JObj(<<"a">>, <<JNum(9)>>)
        \/ c.op = "remove" /\ c.path = <<"items">> /\ c.index = MaxLen(Indexes) - 2}

ConcCalls ==
    ConcPlainCalls \cup FreshCalls(ConcPlainCalls) \cup StaleCalls \cup ConcEndCalls

\* the calls of the goroutine that runs alone
Calls == PlainCalls \cup ConcCalls

----------------------------------------------------------------------------
(* Actions *)

Init ==
    /\ \E handlers \in BOOLEAN : IsM(SetUp(handlers))
    /\ pc = [t \in Threads |-> "idle"]
    /\ call = [t \in Threads |-> NoCall]
    /\ loc = [t \in Threads |-> NoLocals]
    /\ pre = [t \in Threads |-> NoSnapshot]
    /\ dirty = [t \in Threads |-> FALSE]
    /\ ou = [t \in Threads |-> NoUpdate]
    /\ ops = 0
    /\ log = <<>>
    /\ held = [t \in Threads |-> <<>>]
    /\ mu = Free
    /\ ev = Event(1, NoCall, "init", Nil, FALSE, FALSE, FALSE)

\* a call of the API by goroutine t.  It returns an error before it reaches the
\* handler, or edits the tree and releases the lock to run the handler, or (no
\* handler) runs to its return in one critical section, in which
\* Source.setConfig may fail (perr)
Call(t, c) ==
    /\ UNCHANGED held
    /\ mu = Free
    /\ pc[t] = "idle"
    /\ ops' = ops + 1
    /\ UNCHANGED ou
    /\ LET r == Dispatch(M, c)
       IN \/ /\ r.err.t # "nil"
             /\ ev' = Event(t, c, "return", r.err, Conditional(c) /\ c.exp # version,
                          FALSE, FALSE)
             /\ SetM(r.m)
             /\ mu' = Free
             /\ UNCHANGED <<pc, call, loc, pre, dirty, log>>
          \/ /\ r.err.t = "nil" /\ r.l.handler
             /\ LET locals == [loc EXCEPT ![t] = r.l]
                IN /\ SetM(Collect(r.m, locals))
                   /\ loc' = locals
             /\ Touch(t)
             /\ ev' = Event(t, c, "handler", Nil, FALSE, FALSE, FALSE)
             /\ pc' = [pc EXCEPT ![t] = "handler"]
             /\ call' = [call EXCEPT ![t] = c]
             /\ pre' = [pre EXCEPT ![t] = Snapshot(M)]
             /\ mu' = HandlerLock(t)
             /\ UNCHANGED log
          \/ /\ r.err.t = "nil" /\ ~r.l.handler
             /\ \E perr \in BOOLEAN :
                  LET f == finishLocked(r.m, r.l, FALSE, perr)
                  IN /\ SetM(Collect(f.m, loc))
                     /\ ev' = Event(t, c, "return", f.err, FALSE, FALSE, perr)
                     /\ log' = IF f.err.t = "nil" THEN Append(log, c) ELSE log
             /\ Touch(t)
             /\ mu' = Free
             /\ UNCHANGED <<pc, call, loc, pre>>

\* the handler returns, the call takes the lock again and runs to its return;
\* within OptimisticUpdate, RetryOnConflict then decides on the error
HandlerReturn(t, herr, perr) ==
    /\ CriticalSection
    /\ UNCHANGED held
    /\ pc[t] = "handler"
    /\ ~(herr /\ perr)
    /\ LET f == finishLocked(M, loc[t], herr, perr)
           locals == [loc EXCEPT ![t] = NoLocals]
           o == IF ou[t].st = "running"
                THEN RetryOnConflict([ou[t] EXCEPT !.steps = @ + 1], f.err)
                ELSE ou[t]
       IN /\ SetM(Collect(f.m, locals))
          /\ loc' = locals
          /\ ev' = Event(t, call[t], "return", f.err, FALSE, herr, perr)
          /\ log' = IF f.err.t = "nil" THEN Append(log, call[t]) ELSE log
          /\ ou' = [ou EXCEPT ![t] = o]
          /\ pc' = [pc EXCEPT ![t] = IF o.st = "running" THEN "version" ELSE "idle"]
    /\ Touch(t)
    /\ call' = [call EXCEPT ![t] = NoCall]
    /\ pre' = [pre EXCEPT ![t] = NoSnapshot]
    /\ UNCHANGED ops

DoCall(ts, menu, budget) ==
    ops < budget /\ \E t \in {u \in ts : pc[u] = "idle"} : \E c \in menu : Call(t, c)

DoHandlerReturn == \E t \in Threads : \E herr, perr \in BOOLEAN : HandlerReturn(t, herr, perr)

\* two goroutines that call concurrently
Next == DoCall(Threads, ConcCalls, MaxOps) \/ DoHandlerReturn

Spec == Init /\ [][Next]_vars

\* one goroutine
NextSeq == DoCall({1}, Calls, MaxOps) \/ DoHandlerReturn

SpecSeq == Init /\ [][NextSeq]_vars

----------------------------------------------------------------------------
(* OptimisticUpdate by goroutine 1, while goroutine 2 calls Replace *)

UpdatePaths == {<<"name">>, <<"items", "1">>}

\* what updateFn returns: a value, or an error
UpdateFnResults == {Done(v) : v \in Values} \cup {Fail(JNull)}

UpdateCall(o) ==
    [NoCall EXCEPT !.op = "replace", !.path = o.path, !.value = o.newValue,
                   !.cond = TRUE, !.exp = o.expectedVersion]

\* where goroutine t goes on after RetryOnConflict
UpdatePc(o) == IF o.st = "running" THEN "version" ELSE "idle"

\* OptimisticUpdate(path, updateFn) is called: RetryOnConflict enters its loop
OptimisticUpdate(t, path) ==
    /\ CriticalSection
    /\ UNCHANGED held
    /\ pc[t] = "idle"
    /\ ops' = ops + 1
    /\ ou' = [ou EXCEPT ![t] = [NoUpdate EXCEPT !.st = "running", !.path = path]]
    /\ pc' = [pc EXCEPT ![t] = "version"]
    /\ ev' = Event(t, [NoCall EXCEPT !.op = "update"], "start", Nil, FALSE, FALSE, FALSE)
    /\ UNCHANGED <<mvars, call, loc, pre, dirty, log>>

\* currentVersion := cd.manager.Version()
ReadVersion(t) ==
    /\ CriticalSection
    /\ UNCHANGED held
    /\ pc[t] = "version"
    /\ ou' = [ou EXCEPT ![t].expectedVersion = version, ![t].steps = @ + 1]
    /\ pc' = [pc EXCEPT ![t] = "query"]
    /\ ev' = Event(t, [NoCall EXCEPT !.op = "update"], "version", Nil, FALSE, FALSE, FALSE)
    /\ UNCHANGED <<mvars, call, loc, pre, dirty, ops, log>>

\* the query under RLock, and updateFn
ReadValue(t, fn) ==
    /\ CriticalSection
    /\ UNCHANGED held
    /\ pc[t] = "query"
    /\ LET results == FirstValue(M, ou[t].path)
           err == IF ~results.ok THEN Error("path not found")
                  ELSE IF ~fn.ok THEN Error("updateFn")
                  ELSE Nil
           stepped == [ou[t] EXCEPT !.steps = @ + 1]
           o == IF err.t = "nil" THEN [stepped EXCEPT !.newValue = fn.v]
                ELSE RetryOnConflict(stepped, err)
       IN /\ ou' = [ou EXCEPT ![t] = o]
          /\ pc' = [pc EXCEPT ![t] = IF err.t = "nil" THEN "replace" ELSE UpdatePc(o)]
          /\ ev' = Event(t, [NoCall EXCEPT !.op = "update"], "query", err, FALSE, FALSE, FALSE)
    /\ UNCHANGED <<mvars, call, loc, pre, dirty, ops, log>>

\* m.ConditionalReplace(path, expectedVersion, newValue)
TryReplace(t) ==
    /\ CriticalSection
    /\ UNCHANGED held
    /\ pc[t] = "replace"
    /\ LET c == UpdateCall(ou[t])
           r == Dispatch(M, c)
           stepped == [ou[t] EXCEPT !.steps = @ + 1]
       IN \/ /\ r.err.t # "nil"
             /\ SetM(r.m)
             /\ LET o == RetryOnConflict(stepped, r.err)
                IN /\ ou' = [ou EXCEPT ![t] = o]
                   /\ pc' = [pc EXCEPT ![t] = UpdatePc(o)]
             /\ ev' = Event(t, c, "return", r.err, c.exp # version, FALSE, FALSE)
             /\ UNCHANGED <<call, loc, pre, dirty, log>>
          \/ /\ r.err.t = "nil" /\ r.l.handler
             /\ LET locals == [loc EXCEPT ![t] = r.l]
                IN /\ SetM(Collect(r.m, locals))
                   /\ loc' = locals
             /\ Touch(t)
             /\ ev' = Event(t, c, "handler", Nil, FALSE, FALSE, FALSE)
             /\ pc' = [pc EXCEPT ![t] = "handler"]
             /\ call' = [call EXCEPT ![t] = c]
             /\ pre' = [pre EXCEPT ![t] = Snapshot(M)]
             /\ ou' = [ou EXCEPT ![t] = stepped]
             /\ UNCHANGED log
          \/ /\ r.err.t = "nil" /\ ~r.l.handler
             /\ \E perr \in BOOLEAN :
                  LET f == finishLocked(r.m, r.l, FALSE, perr)
                      o == RetryOnConflict(stepped, f.err)
                  IN /\ SetM(Collect(f.m, loc))
                     /\ ev' = Event(t, c, "return", f.err, FALSE, FALSE, perr)
                     /\ log' = IF f.err.t = "nil" THEN Append(log, c) ELSE log
                     /\ ou' = [ou EXCEPT ![t] = o]
                     /\ pc' = [pc EXCEPT ![t] = UpdatePc(o)]
             /\ Touch(t)
             /\ UNCHANGED <<call, loc, pre>>
    /\ UNCHANGED ops

\* the calls of goroutine 2
OtherCalls == {[NoCall EXCEPT !.op = "replace", !.path = <<"name">>, !.value = JNum(7)]}

DoOptimisticUpdate ==
    ops < MaxOps + MaxAttempts /\ \E path \in UpdatePaths : OptimisticUpdate(1, path)

DoReadValue == \E fn \in UpdateFnResults : ReadValue(1, fn)

UpdateNext == ReadVersion(1) \/ DoReadValue \/ TryReplace(1)

NextUpdate ==
    \/ DoOptimisticUpdate
    \/ UpdateNext
    \/ DoCall({2}, OtherCalls, MaxOps + MaxAttempts)
    \/ DoHandlerReturn

SpecUpdate == Init /\ [][NextUpdate]_vars

----------------------------------------------------------------------------
(* Registration while the manager is in use: goroutine 1 registers nodes   *)
(* of the tree, and nodes it built itself, between its mutations           *)

RegisterOps == {"OnInsert", "OnRemove", "OnReplace"}

\* the nodes goroutine 1 registers: the root, the array, its scalar element (if
\* it is still in the tree) and the scalar /name
RegisterNodes ==
    {Root} \cup {n \in Reach(heap, Root) :
                    findNodePath(heap, Root, n) \in {<<"items">>, <<"items", "1">>, <<"name">>}}

\* OnInsert, OnRemove or OnReplace of a node of the tree or, if detached, of an
\* empty array node that the caller has just built and that is in no tree
RegisterCall(t, op, node, detached) ==
    /\ CriticalSection
    /\ UNCHANGED held
    /\ pc[t] = "idle"
    /\ ops' = ops + 1
    /\ LET m0 == IF detached THEN [M EXCEPT !.heap = parseNode(heap, JArr(<<>>)).h] ELSE M
           n == IF detached THEN FreshId(heap) ELSE node
           handler == modifiables[1].Handler
           r == CASE op = "OnInsert" -> OnInsert(m0, n, handler)
                  [] op = "OnRemove" -> OnRemove(m0, n, handler)
                  [] OTHER -> OnReplace(m0, n, handler)
       IN /\ SetM(Collect(r.m, loc))
          /\ ev' = Event(t, [NoCall EXCEPT !.op = op], "return", r.err, FALSE, FALSE, FALSE)
                      @@ [node |-> n, kind |-> m0.heap[n].k]
    /\ UNCHANGED <<pc, call, loc, pre, dirty, ou, log>>

DoRegister(budget) ==
    ops < budget /\ \E op \in RegisterOps :
        \/ \E node \in RegisterNodes : RegisterCall(1, op, node, FALSE)
        \/ RegisterCall(1, op, Root, TRUE)

NextReg == DoCall({1}, ConcPlainCalls, MaxOps) \/ DoHandlerReturn \/ DoRegister(MaxOps)

SpecReg == Init /\ [][NextReg]_vars

----------------------------------------------------------------------------
(* Validators and a validation service configured while the manager is in  *)
(* use                                                                     *)

ValidatorTags == {"number", "deny"}

ValidatorPaths == {<<"items">>, <<"name">>}

\* Manager.AddValidator
AddValidatorCall(t, path, tag) ==
    /\ CriticalSection
    /\ UNCHANGED held
    /\ pc[t] = "idle"
    /\ ops' = ops + 1
    /\ SetM(AddValidator(M, path, tag))
    /\ ev' = Event(t, [NoCall EXCEPT !.op = "AddValidator", !.path = path], "return", Nil,
                   FALSE, FALSE, FALSE)
    /\ UNCHANGED <<pc, call, loc, pre, dirty, ou, log>>

DoAddValidator(budget) ==
    ops < budget /\ \E path \in ValidatorPaths : \E tag \in ValidatorTags :
        AddValidatorCall(1, path, tag)

\* Manager.SetValidationService
SetValidationServiceCall(t, service) ==
    /\ CriticalSection
    /\ UNCHANGED held
    /\ pc[t] = "idle"
    /\ ops' = ops + 1
    /\ SetM(SetValidationService(M, service))
    /\ ev' = Event(t, [NoCall EXCEPT !.op = "SetValidationService"], "return", Nil,
                   FALSE, FALSE, FALSE)
    /\ UNCHANGED <<pc, call, loc, pre, dirty, ou, log>>

DoSetValidationService(budget) ==
    ops < budget /\ \E service \in Services : SetValidationServiceCall(1, service)

NextVal ==
    \/ DoCall({1}, ConcPlainCalls, MaxOps)
    \/ DoHandlerReturn
    \/ DoAddValidator(MaxOps)
    \/ DoSetValidationService(MaxOps)

SpecVal == Init /\ [][NextVal]_vars

----------------------------------------------------------------------------
(* Paths as strings.  findNodePath returns "/" + strings.Join(segments,     *)
(* "/"); a string is the sequence of its characters, a key without "/" one  *)
(* character.                                                              *)

\* the characters of a key
Chars(key) ==
    IF key = "a/b" THEN <<"a", "/", "b">>
    ELSE IF key = "" THEN <<>>
    ELSE <<key>>

RECURSIVE JoinSegments(_)
\* strings.Join(pathSegments, "/")
JoinSegments(segs) ==
    IF segs = <<>> THEN <<>>
    ELSE IF Len(segs) = 1 THEN Chars(segs[1])
    ELSE Chars(Head(segs)) \o <<"/">> \o JoinSegments(Tail(segs))

\* the string findNodePath returns for the segments it has collected
PathString(segs) == IF segs = <<>> THEN <<>> ELSE <<"/">> \o JoinSegments(segs)

RECURSIVE Split(_, _)
\* strings.Split(str, "/"), cur being the part read so far
Split(str, cur) ==
    IF str = <<>> THEN <<cur>>
    ELSE IF Head(str) = "/" THEN <<cur>> \o Split(Tail(str), <<>>)
    ELSE Split(Tail(str), Append(cur, Head(str)))

RECURSIVE Follow(_, _, _)
\* the node reached from node by the segments: an object key or an array
\* index each; -1 if a segment leads nowhere
Follow(h, node, parts) ==
    IF parts = <<>> THEN node
    ELSE LET hit == {i \in 1 .. Len(h[node].kids) : Chars(Seg(h[node], i)) = Head(parts)}
         IN IF h[node].k \notin {"arr", "obj"} \/ hit = {} THEN 0 - 1
            ELSE Follow(h, h[node].kids[CHOOSE i \in hit : TRUE], Tail(parts))

\* the node a path string leads to from the root
Resolve(h, str) ==
    IF str = <<>> THEN Root ELSE Follow(h, Root, Split(Tail(str), <<>>))

\* documents whose member names may hold a "/"
PathDocs ==
    {InitDoc,
     JObj(<<"a/b", "a">>, <<JNum(1), JObj(<<"b">>, <<JNum(2)>>)>>),
     JObj(<<"a">>, <<JArr(<<JNum(1), JObj(<<"b">>, <<JNum(2)>>)>>)>>),
     JObj(<<"", "b">>, <<JNum(1), JArr(<<JNum(2)>>)>>)}

InitPath ==
    /\ \E d \in PathDocs : IsM(NewManager(d))
    /\ pc = [t \in Threads |-> "idle"]
    /\ call = [t \in Threads |-> NoCall]
    /\ loc = [t \in Threads |-> NoLocals]
    /\ pre = [t \in Threads |-> NoSnapshot]
    /\ dirty = [t \in Threads |-> FALSE]
    /\ ou = [t \in Threads |-> NoUpdate]
    /\ ops = 0
    /\ log = <<>>
    /\ held = [t \in Threads |-> <<>>]
    /\ mu = Free
    /\ ev = Event(1, NoCall, "init", Nil, FALSE, FALSE, FALSE)

\* a caller looks up the path of a node of the tree
FindNodePathCall(t, node) ==
    /\ CriticalSection
    /\ UNCHANGED held
    /\ pc[t] = "idle"
    /\ ops' = ops + 1
    /\ ev' = Event(t, [NoCall EXCEPT !.op = "findNodePath"], "return", Nil, FALSE, FALSE, FALSE)
                @@ [node |-> node, str |-> PathString(findNodePath(heap, Root, node))]
    /\ UNCHANGED <<mvars, pc, call, loc, pre, dirty, ou, log>>

\* a caller registers a node of the tree
OnReplaceCall(t, node) ==
    /\ CriticalSection
    /\ UNCHANGED held
    /\ pc[t] = "idle"
    /\ ops' = ops + 1
    /\ LET r == OnReplace(M, node, FALSE)
       IN /\ SetM(r.m)
          /\ ev' = Event(t, [NoCall EXCEPT !.op = "OnReplace"], "return", r.err,
                         FALSE, FALSE, FALSE)
                      @@ [node |-> node, kind |-> heap[node].k]
    /\ UNCHANGED <<pc, call, loc, pre, dirty, ou, log>>

DoFindNodePath(budget) ==
    ops < budget /\ \E node \in Reach(heap, Root) : FindNodePathCall(1, node)

DoOnReplace(budget) ==
    ops < budget /\ \E node \in Reach(heap, Root) : OnReplaceCall(1, node)

NextPath == DoFindNodePath(MaxOps) \/ DoOnReplace(MaxOps)

SpecPath == InitPath /\ [][NextPath]_vars

----------------------------------------------------------------------------
(* Readers: goroutines that query the tree.  A reader holds the results of *)
(* its last query (held) and may write to the nodes it holds: GetObject    *)
(* and GetArray hand out the map and the slice of a node.                  *)

UsersDoc ==
    JObj(<<"users">>,
         <<JArr(<<JObj(<<"name", "age">>, <<JStr("A"), JNum(30)>>),
                  JObj(<<"name", "age">>, <<JStr("B"), JNum(20)>>)>>)>>)

MembersDoc ==
    JObj(<<"users">>,
         <<JObj(<<"x", "y", "z">>,
                <<JObj(<<"name">>, <<JStr("A")>>), JObj(<<"name">>, <<JStr("B")>>), JNum(5)>>)>>)

MixedDoc ==
    JObj(<<"users">>,
         <<JArr(<<JObj(<<"age">>, <<JNum(30)>>), JNum(7),
                  JObj(<<"name">>, <<JStr("A")>>), JObj(<<"age">>, <<JStr("A")>>)>>)>>)

QueryDocs == {UsersDoc, MembersDoc, MixedDoc}

\* a call of a reader: c is [kind, query, predicate]
QueryOf(query) == [kind |-> "Query", query |-> query, predicate |-> ""]
QueryOneOf(query) == [kind |-> "QueryOne", query |-> query, predicate |-> ""]
FindAllOf(predicate) == [kind |-> "FindAll", query |-> <<>>, predicate |-> predicate]

FilterQueries ==
    {<<Key("users"), FilterPart(field, op, text)>> :
        field \in {"age"}, op \in Operators \cup {"~"}, text \in {NumText(25), WordText("A")}}
    \cup {<<Key("users"), FilterPart("name", "==", WordText("A"))>>,
          <<Key("users"), FilterPart("name", "!=", WordText("A"))>>,
          <<Key("users"), FilterPart("age", "!=", WordText("true"))>>,
          <<Key("users"), FilterPart("age", "==", WordText("false"))>>}

\* the queries of a reader of the documents of QueryDocs
UsersQueries ==
    FilterQueries
    \cup {<<Key("users"), FilterPart("age", ">", NumText(25)), Key("name")>>,
          <<Key("users"), FilterPart("age", "<", NumText(25)), Key("email")>>,
          <<Key("users"), Bracket("*")>>,
          <<Key("users"), Bracket("*"), Key("name")>>,
          <<Key("users"), Bracket("*"), Key("age")>>,
          <<Key("users"), Bracket("0")>>,
          <<Key("users"), Bracket("1"), Key("name")>>,
          <<Key("users"), Bracket("5")>>,
          <<Key("users"), Bracket("x")>>,
          <<Key("users"), Key("0")>>,
          <<Key("users"), Key("*")>>,
          <<Key("users"), Key("*"), Key("name")>>,
          <<Key("*"), Key("*"), Key("name")>>,
          <<Key("*"), Bracket("*"), Key("age")>>,
          <<Key("*"), Bracket("3"), Key("age")>>,
          <<Key("users"), Key("x"), Key("name")>>,
          <<Key("users"), Key("z"), Key("name")>>,
          <<Key("users"), Key(""), Key("y")>>,
          <<Key("missing")>>,
          <<Key("")>>,
          <<>>}

ReaderCalls ==
    {QueryOf(q) : q \in UsersQueries}
    \cup {QueryOneOf(<<Key("users"), Bracket("*")>>),
          QueryOneOf(<<Key("users"), Key("*"), Key("name")>>),
          QueryOneOf(<<Key("users"), FilterPart("age", ">", NumText(25))>>),
          QueryOneOf(<<Key("users"), FilterPart("age", ">", NumText(99))>>),
          QueryOneOf(<<Key("missing")>>)}
    \cup {FindAllOf(p) : p \in Predicates}

\* the matches of the call, before they are copied
Matched(m, c, order) ==
    IF c.kind = "FindAll" THEN Found(findAllRecursive(m.heap, Root, <<>>, c.predicate, order))
    ELSE IF c.query = <<>> \/ c.query = <<Key("")>> THEN Found(<<[Path |-> <<"">>, Node |-> Root]>>)
    ELSE LET p == parseQuerySegments(c.query)
         IN IF p.ok THEN executeQuery(m.heap, Root, <<>>, p.segments, order) ELSE QueryError

RECURSIVE NodesOf(_, _)
\* the number of nodes under the matches
NodesOf(h, matches) ==
    IF matches = <<>> THEN 0
    ELSE Cardinality(Reach(h, Head(matches).Node)) + NodesOf(h, Tail(matches))

Read(m, c, order) ==
    IF c.kind = "Query" THEN Query(m, c.query, order)
    ELSE IF c.kind = "QueryOne" THEN QueryOne(m, c.query, order)
    ELSE FindAll(m, c.predicate, order)

\* what a reader sees of its results: the paths and the values
Seen(h, results) ==
    [i \in 1 .. Len(results) |->
        [Path |-> results[i].Path, Node |-> Content(h, results[i].Node)]]

\* goroutine t lets go of the results it holds and calls Query, QueryOne or
\* FindAll: one critical section under RLock
ReaderCall(t, c, order) ==
    /\ CriticalSection
    /\ pc[t] = "idle"
    /\ ops' = ops + 1
    /\ LET m == CollectWith(M, loc, [held EXCEPT ![t] = <<>>])
       IN /\ NodesOf(m.heap, Matched(m, c, order).results) <= MaxResultNodes
          /\ LET r == Read(m, c, order)
                 results == [held EXCEPT ![t] = r.results]
             IN /\ heap' = CollectWith([m EXCEPT !.heap = r.h], loc, results).heap
                /\ held' = results
                /\ ev' = Event(t, [NoCall EXCEPT !.op = c.kind], "return",
                               IF r.ok THEN Nil ELSE Error("query"), FALSE, FALSE, FALSE)
                            @@ [query |-> c.query, predicate |-> c.predicate,
                                results |-> Seen(r.h, r.results)]
    /\ UNCHANGED <<modifiables, version, doc, pathCacheValid, pathCache, history,
                   historyEnabled, validators, validationService,
                   pc, call, loc, pre, dirty, ou, log>>

\* goroutine t writes to a node it holds: it deletes the first member of an
\* object, or stores the last element of an array at its first index
ModifyResult(t, node) ==
    /\ UNCHANGED mu
    /\ pc[t] = "idle"
    /\ ops' = ops + 1
    /\ heap[node].kids # <<>>
    /\ LET kids == heap[node].kids
           h == IF heap[node].k = "obj"
                THEN [heap EXCEPT ![node].kids = Tail(kids), ![node].keys = Tail(@)]
                ELSE [heap EXCEPT ![node].kids = ReplaceAt(kids, 1, kids[Len(kids)])]
       IN heap' = CollectWith([M EXCEPT !.heap = h], loc, held).heap
    /\ ev' = Event(t, [NoCall EXCEPT !.op = "ModifyResult"], "return", Nil, FALSE, FALSE, FALSE)
                @@ [node |-> node]
    /\ UNCHANGED <<modifiables, version, doc, pathCacheValid, pathCache, history,
                   historyEnabled, validators, validationService,
                   pc, call, loc, pre, dirty, ou, log, held>>

\* the nodes goroutine t holds
Held(t) == UNION {Reach(heap, held[t][i].Node) : i \in 1 .. Len(held[t])}

DoReaderCall(ts, menu, budget) ==
    ops < budget /\ \E order \in Orders(heap) : \E t \in ts : \E c \in menu :
        ReaderCall(t, c, order)

DoModifyResult(ts, budget) ==
    ops < budget /\ \E t \in ts : \E node \in Held(t) : ModifyResult(t, node)

InitQuery ==
    /\ \E d \in QueryDocs : IsM(NewManager(d))
    /\ pc = [t \in Threads |-> "idle"]
    /\ call = [t \in Threads |-> NoCall]
    /\ loc = [t \in Threads |-> NoLocals]
    /\ pre = [t \in Threads |-> NoSnapshot]
    /\ dirty = [t \in Threads |-> FALSE]
    /\ ou = [t \in Threads |-> NoUpdate]
    /\ ops = 0
    /\ log = <<>>
    /\ held = [t \in Threads |-> <<>>]
    /\ mu = Free
    /\ ev = Event(1, NoCall, "init", Nil, FALSE, FALSE, FALSE)

\* the results of a query do not depend on the queries before it
NextQuery == DoReaderCall({1}, ReaderCalls, MaxOps - 1)

SpecQuery == InitQuery /\ [][NextQuery]_vars

----------------------------------------------------------------------------
(* A reader beside a writer: goroutine 2 queries the tree and writes to    *)
(* the nodes it was given, goroutine 1 mutates the tree                    *)

CopyCalls ==
    {QueryOf(<<Key("name")>>),
     QueryOf(<<Key("items")>>),
     QueryOf(<<Key("items"), Bracket("0")>>),
     QueryOf(<<Key("items"), Bracket("*"), Key("a")>>),
     QueryOf(<<>>),
     QueryOneOf(<<Key("items"), FilterPart("a", "==", NumText(1))>>),
     FindAllOf("number")}

NextCopy ==
    \/ DoReaderCall({2}, CopyCalls, MaxOps)
    \/ DoModifyResult({2}, MaxOps)
    \/ DoCall({1}, ConcPlainCalls, MaxOps)
    \/ DoHandlerReturn

SpecCopy == Init /\ [][NextCopy]_vars

----------------------------------------------------------------------------
(* POST /config of the HTTP server with a version field: each request is   *)
(* served by a goroutine of its own, which compares the version and then   *)
(* calls the manager                                                       *)

\* the HTTP status of a response
StatusOK == 200
StatusBadRequest == 400
StatusConflict == 409

\* onPost up to the operation: hs.manager.Version() is compared with the
\* version field of the request c
PostCheck(t, c) ==
    /\ CriticalSection
    /\ pc[t] = "idle"
    /\ ops' = ops + 1
    /\ IF version # c.exp
       THEN /\ ev' = Event(t, c, "return",
                           NewConflictError(c.op, c.exp, version), TRUE, FALSE, FALSE)
                        @@ [status |-> StatusConflict]
            /\ UNCHANGED <<pc, call>>
       ELSE /\ ev' = Event(t, c, "checked", Nil, FALSE, FALSE, FALSE) @@ [status |-> 0]
            /\ pc' = [pc EXCEPT ![t] = "post"]
            /\ call' = [call EXCEPT ![t] = c]
    /\ UNCHANGED <<mvars, loc, pre, dirty, ou, log, held>>

\* onPost from the operation on: hs.manager.insert, remove or replace
PostApply(t) ==
    /\ mu = Free
    /\ pc[t] = "post"
    /\ LET c == call[t]
           r == Dispatch(M, c)
       IN \/ /\ r.err.t # "nil"
             /\ SetM(r.m)
             /\ ev' = Event(t, c, "return", r.err, FALSE, FALSE, FALSE)
                         @@ [status |-> StatusBadRequest]
             /\ pc' = [pc EXCEPT ![t] = "idle"]
             /\ call' = [call EXCEPT ![t] = NoCall]
             /\ mu' = Free
             /\ UNCHANGED <<loc, pre, dirty, log>>
          \/ /\ r.err.t = "nil" /\ r.l.handler
             /\ LET locals == [loc EXCEPT ![t] = r.l]
                IN /\ SetM(Collect(r.m, locals))
                   /\ loc' = locals
             /\ Touch(t)
             /\ ev' = Event(t, c, "handler", Nil, FALSE, FALSE, FALSE) @@ [status |-> 0]
             /\ pc' = [pc EXCEPT ![t] = "handler"]
             /\ pre' = [pre EXCEPT ![t] = Snapshot(M)]
             /\ mu' = HandlerLock(t)
             /\ UNCHANGED <<call, log>>
          \/ /\ r.err.t = "nil" /\ ~r.l.handler
             /\ \E perr \in BOOLEAN :
                  LET f == finishLocked(r.m, r.l, FALSE, perr)
                  IN /\ SetM(Collect(f.m, loc))
                     /\ ev' = Event(t, c, "return", f.err, FALSE, FALSE, perr)
                                 @@ [status |-> IF f.err.t = "nil" THEN StatusOK
                                                ELSE StatusBadRequest]
                     /\ log' = IF f.err.t = "nil" THEN Append(log, c) ELSE log
             /\ Touch(t)
             /\ pc' = [pc EXCEPT ![t] = "idle"]
             /\ call' = [call EXCEPT ![t] = NoCall]
             /\ mu' = Free
             /\ UNCHANGED <<loc, pre>>
    /\ UNCHANGED <<ou, ops, held>>

\* the requests: an operation and the version the client last saw
PostRequests == {[c EXCEPT !.exp = e] : c \in ConcPlainCalls, e \in {version - 1, version}}

DoPostCheck(budget) ==
    ops < budget /\ \E t \in Threads : \E c \in PostRequests : PostCheck(t, c)

DoPostApply == \E t \in Threads : PostApply(t)

NextPost == DoPostCheck(MaxOps) \/ DoPostApply \/ DoHandlerReturn

SpecPost == Init /\ [][NextPost]_vars

----------------------------------------------------------------------------
(* Config(): what the caller holds is the node the call returns.           *)

\* Manager.Config: m.config
Config(m) == Root

\* goroutine t calls Config() and keeps the node
ConfigCall(t) ==
    /\ CriticalSection
    /\ pc[t] = "idle"
    /\ ops' = ops + 1
    /\ LET results == [held EXCEPT ![t] = <<[Path |-> <<"">>, Node |-> Config(M)]>>]
       IN /\ held' = results
          /\ heap' = CollectWith(M, loc, results).heap
          /\ ev' = Event(t, [NoCall EXCEPT !.op = "Config"], "return", Nil, FALSE, FALSE, FALSE)
                      @@ [results |-> Seen(heap, results[t])]
    /\ UNCHANGED <<modifiables, version, doc, pathCacheValid, pathCache, history,
                   historyEnabled, validators, validationService,
                   pc, call, loc, pre, dirty, ou, log>>

DoConfigCall(ts, budget) == ops < budget /\ \E t \in ts : ConfigCall(t)

\* a goroutine that calls Config() and writes to what it holds, and a writer
NextConfig ==
    \/ DoConfigCall({2}, MaxOps)
    \/ DoModifyResult({2}, MaxOps)
    \/ DoCall({1}, ConcPlainCalls, MaxOps)
    \/ DoHandlerReturn

SpecConfig == Init /\ [][NextConfig]_vars

----------------------------------------------------------------------------
(* A ChangeHistory of its own, as NewChangeHistory(maxSize) builds it, and  *)
(* its callers' Add and Clear.  The n-th call adds the event of version n. *)

\* number of calls of Add and Clear
MaxHistoryCalls == 7

\* the sizes the histories are built with
MaxSizes == {0, 1, 2, 3}

HistoryEvent(n) == ChangeEvent("insert", <<"items">>, 0, n)

InitHistory ==
    /\ \E size \in MaxSizes :
          IsM([NewManager(InitDoc) EXCEPT !.history = NewChangeHistory(size)])
    /\ pc = [t \in Threads |-> "idle"]
    /\ call = [t \in Threads |-> NoCall]
    /\ loc = [t \in Threads |-> NoLocals]
    /\ pre = [t \in Threads |-> NoSnapshot]
    /\ dirty = [t \in Threads |-> FALSE]
    /\ ou = [t \in Threads |-> NoUpdate]
    /\ ops = 0
    /\ log = <<>>
    /\ held = [t \in Threads |-> <<>>]
    /\ mu = Free
    /\ ev = Event(1, NoCall, "init", Nil, FALSE, FALSE, FALSE)

\* ch.Add(event) or ch.Clear()
HistoryCall(op) ==
    /\ ops < MaxHistoryCalls
    /\ ops' = ops + 1
    /\ history' = IF op = "Add" THEN HistoryAdd(history, HistoryEvent(ops + 1))
                  ELSE HistoryClear(history)
    /\ log' = Append(log, [NoCall EXCEPT !.op = op, !.index = ops + 1])
    /\ ev' = Event(1, [NoCall EXCEPT !.op = op], "return", Nil, FALSE, FALSE, FALSE)
    /\ UNCHANGED <<heap, modifiables, version, doc, pathCacheValid, pathCache,
                   historyEnabled, validators, validationService,
                   pc, call, loc, pre, dirty, ou, held, mu>>

NextHistory == HistoryCall("Add") \/ HistoryCall("Clear")

SpecHistory == InitHistory /\ [][NextHistory]_vars

----------------------------------------------------------------------------
(* A callback that calls the manager.  The call runs on the goroutine of   *)
(* the call whose handler it is, so here the two positions are the two     *)
(* activations of one goroutine: 1 is the call the goroutine made, 2 the   *)
(* call its callback makes.  Activation 1 resumes when its handler has     *)
(* returned, that is when activation 2 has.                                *)

Outer == 1
Inner == 2

\* the callback of the outer call calls insert, remove or replace
CallbackCall(c) == pc[Outer] = "handler" /\ Call(Inner, c)

\* the handler of the callback's call returns
CallbackHandlerReturn(herr, perr) == HandlerReturn(Inner, herr, perr)

\* the callback returns
OuterHandlerReturn(herr, perr) == pc[Inner] = "idle" /\ HandlerReturn(Outer, herr, perr)

DoCallbackCall(menu, budget) == ops < budget /\ \E c \in menu : CallbackCall(c)

DoCallbackHandlerReturn == \E herr, perr \in BOOLEAN : CallbackHandlerReturn(herr, perr)

DoOuterHandlerReturn == \E herr, perr \in BOOLEAN : OuterHandlerReturn(herr, perr)

NextNested ==
    \/ DoCall({Outer}, ConcPlainCalls \cup ConcEndCalls, MaxOps)
    \/ DoCallbackCall(ConcPlainCalls \cup ConcEndCalls, MaxOps)
    \/ DoCallbackHandlerReturn
    \/ DoOuterHandlerReturn

SpecNested == Init /\ [][NextNested]_vars

----------------------------------------------------------------------------
(* Properties *)

\* C1: the version starts at 1 and is always 1 plus the number of calls that
\* returned success: a committed call adds 1, a call that returns an error
\* (resolve, validation, handler, persistence, conflict) adds nothing
C1_VersionCountsCommits == version = 1 + Len(log)

\* a call failed in Source.setConfig after another was committed
C1_Witness ==
    /\ Len(log) = 1 /\ ops = 2 /\ version = 2
    /\ ev.phase = "return" /\ ev.perr

\* C2: a call whose staged document fails the schema leaves the tree, the
\* version, the registry and the source's document exactly as they were
C2_SchemaFailureChangesNothing ==
    [][ev'.err.msg = "validation failed" =>
          /\ heap' = heap
          /\ version' = version
          /\ modifiables' = modifiables
          /\ doc' = doc]_vars

\* a Remove that the schema rejects, after a committed call
C2_Witness ==
    /\ ev.err.msg = "validation failed" /\ ev.op = "remove"
    /\ version = 2

\* C3: while a ConditionalReplace is between its version check and its commit
\* or rollback, no other writer's mutation is applied or committed, so the
\* version is still the expected one; and of the conditional calls that
\* carried the same expected version at most one succeeds
C3_ConditionalReplaceIndivisible ==
    /\ \A t \in Threads :
          (pc[t] = "handler" /\ call[t].op = "replace" /\ call[t].cond) =>
              (~dirty[t] /\ version = call[t].exp)
    /\ \A i, j \in 1 .. Len(log) :
          (i # j /\ Conditional(log[i]) /\ Conditional(log[j])) => log[i].exp # log[j].exp


RECURSIVE Replay(_, _)
\* the calls executed one at a time, each to its return
Replay(m, calls) ==
    IF calls = <<>> THEN [ok |-> TRUE, m |-> m]
    ELSE LET r == Dispatch(m, Head(calls))
         IN IF r.err.t # "nil" THEN [ok |-> FALSE, m |-> m]
            ELSE Replay(finishLocked(r.m, r.l, FALSE, FALSE).m, Tail(calls))

\* C4: when no call is in flight, the tree, the source's document and the
\* version are those that the successful calls produce when they are executed
\* one at a time in some order
C4_WritersSerializable ==
    (\A t \in Threads : pc[t] = "idle") =>
        \E f \in Perms(Len(log)) :
            LET r == Replay(SetUp(FALSE), [i \in 1 .. Len(log) |-> log[f[i]]])
            IN /\ r.ok
               /\ Content(r.m.heap, Root) = Content(heap, Root)
               /\ r.m.doc = doc
               /\ r.m.version = version

C7_ConflictChangesNothing ==
    [][/\ ev'.stale =>
             /\ IsConflictError(ev'.err)
             /\ ev'.err.yours = ev'.exp
             /\ ev'.err.current = version
             /\ ev'.err.yours # ev'.err.current
             /\ UNCHANGED <<mvars, pc, loc, log>>
       /\ IsConflictError(ev'.err) => ev'.stale]_vars

\* a CompareAndSwap met a conflict after a committed call
C7_Witness ==
    /\ ev.stale /\ ev.op = "cas" /\ IsConflictError(ev.err)
    /\ ev.err.yours = 1 /\ ev.err.current = 2

\* the index of the element of the array at path under which p lies, or -1
ElementIndex(path, p) ==
    IF Len(p) > Len(path) /\ SubSeq(p, 1, Len(path)) = path
    THEN ParseInt(p[Len(path) + 1]).v
    ELSE 0 - 1

C10_Witness ==
    /\ ev.op = "remove" /\ ev.phase = "return" /\ ev.err.t = "nil" /\ ev.index = 0
    /\ \E n \in 1 .. Len(modifiables) : modifiables[n].Path = <<"items", "1">>
    /\ \A n \in 1 .. Len(modifiables) : modifiables[n].Path # <<"items", "0", "a">>
    /\ Len(modifiables) = 5

\* the attempts of OptimisticUpdate by goroutine 1 that ended
Ended == ou[1].errs

\* the positions of goroutine 1 in a call of OptimisticUpdate: in each of them
\* one of ReadVersion, ReadValue, TryReplace and HandlerReturn is its next step,
\* and none of them waits for anything but the lock
UpdatePositions == {"version", "query", "replace", "handler"}

\* C8: OptimisticUpdate makes at most 3 attempts; an attempt is followed by
\* another one only if it ended in a ConflictError; an attempt that ends in
\* any other error is the last one and the call returns that error; and the
\* call terminates: while it runs it has a next step to take, and it returns
\* within 4 steps for each of its 3 attempts
C8_BoundedRetryOnConflictOnly ==
    /\ Len(Ended) + (IF ou[1].st = "running" THEN 1 ELSE 0) <= 3
    /\ \A i \in 1 .. Len(Ended) - 1 : IsConflictError(Ended[i])
    /\ (ou[1].st = "running" /\ Ended # <<>>) => IsConflictError(Ended[Len(Ended)])
    /\ ou[1].st = "returned" =>
          /\ Ended # <<>>
          /\ ~IsConflictError(Ended[Len(Ended)]) => ou[1].ret = Ended[Len(Ended)]
          /\ IsConflictError(Ended[Len(Ended)]) => Len(Ended) = 3
    /\ ou[1].st = "running" => (ou[1].steps < 4 * 3 /\ pc[1] \in UpdatePositions)
    /\ ou[1].st # "running" => (ou[1].steps <= 4 * 3 /\ pc[1] = "idle")

\* the first attempt met a conflict, the second one failed in Source.setConfig
\* and the call returned that error
C8_Witness ==
    /\ ou[1].st = "returned" /\ Len(Ended) = 2
    /\ IsConflictError(Ended[1])
    /\ Ended[2].msg = "failed to persist config"
    /\ ou[1].ret = Ended[2]

\* C9: when OptimisticUpdate gives up because each of its attempts ended in a
\* ConflictError, IsConflictError and GetConflictError report a conflict for
\* the error it returns
C9_GiveUpIsAConflict ==
    (/\ ou[1].st = "returned"
     /\ Len(Ended) = MaxAttempts
     /\ \A i \in 1 .. Len(Ended) : IsConflictError(Ended[i]))
        => (IsConflictError(ou[1].ret) /\ GetConflictError(ou[1].ret))

\* the registry entries whose node is reachable and lies at the recorded path
InSync(k) ==
    /\ modifiables[k].Node \in Reach(heap, Root)
    /\ modifiables[k].Path = findNodePath(heap, Root, modifiables[k].Node)

\* C11: whenever the lock is free, the handler window included, the node of
\* every registry entry is reachable from the root and lies at the entry's
\* recorded path
C11_RegistryInSync == \A k \in 1 .. Len(modifiables) : InSync(k)

\* the array node of the Insertable (Removable) entry of a path, or -1
EntryArray(type, path) ==
    LET i == findModifiableLocked(modifiables, type, path)
    IN IF i > 0 /\ heap[modifiables[i].Node].k = "arr"
       THEN modifiables[i].Node
       ELSE 0 - 1

\* C12: an Insert at a path whose Insertable entry is an array of length n
\* passes for every index of 0 .. n, n included: it fails only by its value, its
\* handler or the source; for any other index it returns the
\* index-out-of-bounds error and changes nothing
C12_InsertBounds ==
    [][(ops' = ops + 1 /\ ev'.op = "insert" /\ ~ev'.stale
            /\ EntryArray("Insertable", ev'.path) >= 0) =>
          LET n == Len(heap[EntryArray("Insertable", ev'.path)].kids)
          IN /\ ev'.index \in 0 .. n =>
                   \/ ev'.err.t = "nil"
                   \/ ev'.err.msg \in {"custom validation failed", "validation failed",
                                       "failed to persist config"}
             /\ ev'.index \notin 0 .. n =>
                   /\ ev'.err = Error("index out of bounds")
                   /\ UNCHANGED <<mvars, pc, loc, log>>]_vars

\* C13: a committed Insert(path, i, v) on the array a leaves the array
\* a[0..i), one new node that holds v, a[i..]: the element nodes of a keep
\* their identity and their order, the length grows by one, the version by one,
\* and the new node is found at path/i
C13_InsertSplices ==
    [][(ev'.op = "insert" /\ ev'.phase = "return" /\ ev'.err.t = "nil") =>
          LET t == ev'.t
              inflight == pc[t] = "handler"
              arr == IF inflight THEN loc[t].target
                     ELSE EntryArray("Insertable", ev'.path)
              a == IF inflight THEN loc[t].backup.kids ELSE heap[arr].kids
              b == heap'[arr].kids
              i == ev'.index
          IN /\ Len(b) = Len(a) + 1
             /\ SubSeq(b, 1, i) = SubSeq(a, 1, i)
             /\ SubSeq(b, i + 2, Len(b)) = SubSeq(a, i + 1, Len(a))
             /\ \A j \in 1 .. Len(a) : a[j] # b[i + 1]
             /\ Content(heap', b[i + 1]) = log'[Len(log')].value
             /\ version' = version + 1
             /\ findNodePath(heap', Root, b[i + 1]) = ev'.path \o <<Itoa(i)>>]_vars

\* C14: a Remove at a path whose Removable entry is an array of length n
\* passes only for an index of 0 .. n-1, and when it is committed the array is
\* the old one without the element at the index, the other element nodes in
\* their order; for any other index, n and the negative ones included, it
\* returns the index-out-of-bounds error and changes nothing
C14_RemoveBounds ==
    [][/\ (ops' = ops + 1 /\ ev'.op = "remove" /\ ~ev'.stale
              /\ EntryArray("Removable", ev'.path) >= 0) =>
             LET n == Len(heap[EntryArray("Removable", ev'.path)].kids)
             IN ev'.index \notin 0 .. (n - 1) =>
                   /\ ev'.err = Error("index out of bounds")
                   /\ UNCHANGED <<mvars, pc, loc, log>>
       /\ (ev'.op = "remove" /\ ev'.phase = "return" /\ ev'.err.t = "nil") =>
             LET t == ev'.t
                 inflight == pc[t] = "handler"
                 arr == IF inflight THEN loc[t].target
                        ELSE EntryArray("Removable", ev'.path)
                 a == IF inflight THEN loc[t].backup.kids ELSE heap[arr].kids
             IN /\ ev'.index \in 0 .. (Len(a) - 1)
                /\ heap'[arr].kids = RemoveAt(a, ev'.index)]_vars

\* the registry kind an operation asks for
KindOf(op) ==
    CASE op = "insert" -> "Insertable"
      [] op = "remove" -> "Removable"
      [] OTHER -> "Replaceable"

\* C15: a call goes on only if the registry holds an entry of exactly the
\* kind of the operation at exactly the path of the call; a call on a path that
\* is registered for other kinds only, or not at all, returns the
\* not-modifiable error and changes nothing
C15_ExactKindAndPath ==
    [][(ops' = ops + 1 /\ ~ev'.stale
            /\ \A k \in 1 .. Len(modifiables) :
                  ~(modifiables[k].Type = KindOf(ev'.op) /\ modifiables[k].Path = ev'.path)) =>
          /\ ev'.err = Error("not modifiable")
          /\ ev'.phase = "return"
          /\ UNCHANGED <<mvars, pc, loc, log>>]_vars

\* after a committed call, an Insert at /name, which is registered as
\* Replaceable only, was refused
C15_Witness ==
    /\ ev.op = "insert" /\ ev.path = <<"name">> /\ ev.err = Error("not modifiable")
    /\ version = 2
    /\ \E k \in 1 .. Len(modifiables) :
          modifiables[k].Type = "Replaceable" /\ modifiables[k].Path = <<"name">>

\* C16: a registration succeeds exactly when its node is reachable from the
\* root, the root included, and, for OnInsert and OnRemove, is an array; a
\* registration that fails leaves the registry as it was
C16_RegistrationPreconditions ==
    [][(ops' = ops + 1 /\ ev'.op \in RegisterOps) =>
          LET reachable == ev'.node \in Reach(heap, Root)
              holds == reachable /\ (ev'.op = "OnReplace" \/ ev'.kind = "arr")
          IN /\ ev'.err.t = "nil" <=> holds
             /\ ev'.err.t # "nil" => modifiables' = modifiables
             /\ ev'.err.t = "nil" => Len(modifiables') = Len(modifiables) + 1]_vars

\* the in-memory edit of the call goroutine t has in flight is in the tree
Edited(t) ==
    LET l == loc[t]
    IN CASE l.op = "insert" ->
              heap[l.target].kids = InsertAt(l.backup.kids, l.index, l.hnode)
         [] l.op = "remove" ->
              heap[l.target].kids = RemoveAt(l.backup.kids, l.index)
         [] OTHER -> Content(heap, l.target) = call[t].value

ValidationErrors ==
    {"not modifiable", "node is not array", "index out of bounds",
     "custom validation failed", "failed to insert", "failed to remove",
     "failed to set", "validation failed"}

\* C18: a call that fails before the in-memory edit (entry not registered,
\* index out of bounds, path not traversable in the clone, custom validator,
\* schema) has no effect: no handler is started, the source's document is not
\* written, no history event is added, and tree, version and registry are
\* unchanged
C18_ValidationFailureHasNoEffect ==
    [][ev'.err.msg \in ValidationErrors =>
          /\ ev'.phase = "return" /\ ~ev'.herr /\ ~ev'.perr
          /\ UNCHANGED <<mvars, pc, loc, log>>]_vars

\* after a committed call, a Replace was refused by the validator of its path
C18_Witness ==
    /\ ev.op = "replace" /\ ev.err.msg = "custom validation failed"
    /\ version = 2 /\ Len(history.events) = 1

\* the validators of a path refuse a call: for Insert and Replace by the new
\* value, for Remove if one of them refuses whatever it is given
Refuses(vs, op, value) ==
    IF op = "remove" THEN \E i \in 1 .. Len(vs) : vs[i] = "deny"
    ELSE RunValidators(vs, value).t # "nil"

\* C19: the validators of a path guard every Insert, Remove and Replace at
\* that path: if one of them returns an error the call is aborted, not by the
\* schema but before it, and changes nothing
C19_ValidatorsGuardEveryMutation ==
    [][(/\ ops' = ops + 1 /\ ev'.op \in {"insert", "remove", "replace"} /\ ~ev'.stale
        /\ findModifiableLocked(modifiables, KindOf(ev'.op), ev'.path) > 0
        /\ ev'.path \in DOMAIN validators
        /\ Refuses(validators[ev'.path], ev'.op, ev'.value)) =>
          /\ ev'.err.t # "nil" /\ ev'.err.msg # "validation failed"
          /\ ev'.phase = "return"
          /\ UNCHANGED <<mvars, pc, loc, log>>]_vars

\* the document a call stages: the source's document with the edit applied
Staged(op, path, index, value) ==
    CASE op = "insert" -> jsonInsertByPath(doc, path, index, value)
      [] op = "remove" -> jsonRemoveByPath(doc, path, index)
      [] OTHER -> jsonSetByPath(doc, path, value)

\* C20: once a validation service is configured, an Insert, Remove or Replace
\* whose staged document the service rejects is aborted with an error and
\* changes neither the tree, nor the version, nor the registry, nor the
\* source's document
C20_ValidationServiceGuardsMutations ==
    [][(/\ ops' = ops + 1 /\ ev'.op \in {"insert", "remove", "replace"}
        /\ validationService # "nil"
        /\ Staged(ev'.op, ev'.path, ev'.index, ev'.value).ok
        /\ ServiceValidate(validationService,
                           Staged(ev'.op, ev'.path, ev'.index, ev'.value).v).t # "nil") =>
          /\ ev'.err.t # "nil"
          /\ ev'.phase = "return"
          /\ UNCHANGED <<heap, version, modifiables, doc>>]_vars

\* C21: the path findNodePath returns for a node of the tree leads, segment by
\* segment from the root, to that node, and no two nodes of the tree have the
\* same path
C21_PathRoundTrip ==
    \A n1 \in Reach(heap, Root) :
        LET str == PathString(findNodePath(heap, Root, n1))
        IN /\ Resolve(heap, str) = n1
           /\ \A n2 \in Reach(heap, Root) :
                 n2 # n1 => PathString(findNodePath(heap, Root, n2)) # str

\* the positions (parent, member or slot) at which node n is referenced in the
\* tree
Positions(n) ==
    {<<p, i>> \in Reach(heap, Root) \X (1 .. Cardinality(DOMAIN heap)) :
        i <= Len(heap[p].kids) /\ heap[p].kids[i] = n}

\* C22: the live tree is a tree in every state, those after a rollback
\* included: every node other than the root is referenced from exactly one
\* array slot or object member, and the root from none
C22_TreeNotGraph ==
    \A n \in Reach(heap, Root) :
        Cardinality(Positions(n)) = IF n = Root THEN 0 ELSE 1

\* an Insert was rolled back while the other goroutine's edit is in the tree
C22_Witness ==
    /\ ev.phase = "return" /\ ev.op = "insert" /\ (ev.herr \/ ev.perr)
    /\ \E t \in Threads : pc[t] = "handler" /\ dirty[t]

\* a step in which a reader's call of kind returns
ReaderStep(kind) == ev'.op = kind /\ ops' = ops + 1

\* what a reader sees of matches of the tree
SeenMatches(h, matches) ==
    [i \in 1 .. Len(matches) |->
        [Path |-> matches[i].Path, Node |-> Content(h, matches[i].Node)]]

\* C23: the results of a query are those found when the members of every
\* object are visited in the order of their insertion, so that a query on a
\* document has one sequence of results
C23_WildcardInInsertionOrder ==
    [][ReaderStep("Query") =>
          ev'.results = SeenMatches(heap, Matched(M, QueryOf(ev'.query),
                                                  InsertionOrder(heap)).results)]_vars

IsPlain(part) == ~part.br /\ part.txt # "*"
IsIndex(part) == part.br /\ part.txt \notin {"*", "?"}
IsFanOut(part) == ~IsPlain(part) /\ ~IsIndex(part)

Front(q) == SubSeq(q, 1, Len(q) - 1)
Last(q) == q[Len(q)]

RECURSIVE Walk(_, _, _)
\* the node that plain and index parts lead to from node, or -1
Walk(h, node, parts) ==
    IF node = 0 - 1 \/ parts = <<>> THEN node
    ELSE LET p == Head(parts)
         IN IF ~p.br /\ p.txt = "" THEN Walk(h, node, Tail(parts))
            ELSE IF ~p.br
            THEN IF h[node].k = "obj" /\ KeyIndex(h[node].keys, p.txt) # 0
                 THEN Walk(h, h[node].kids[KeyIndex(h[node].keys, p.txt)], Tail(parts))
                 ELSE 0 - 1
            ELSE IF /\ h[node].k = "arr"
                    /\ ParseInt(p.txt).ok
                    /\ ParseInt(p.txt).v < Len(h[node].kids)
                 THEN Walk(h, h[node].kids[ParseInt(p.txt).v + 1], Tail(parts))
                 ELSE 0 - 1

\* the segments of the path that plain and index parts spell
Spelled(parts) ==
    LET NonEmpty(p) == p.br \/ p.txt # ""
        ps == SelectSeq(parts, NonEmpty)
    IN [i \in 1 .. Len(ps) |-> ps[i].txt]

Direct(q) == \A i \in 1 .. Len(q) : IsPlain(q[i]) \/ IsIndex(q[i])

\* the literal a filter names
Literal(text) ==
    IF text.num THEN JNum(text.n)
    ELSE IF text.s \in {"true", "false"} THEN JBool(text.s = "true")
    ELSE JStr(text.s)

\* element e of the tree satisfies the predicate field op literal
Satisfies(h, e, expr) ==
    /\ h[e].k = "obj"
    /\ KeyIndex(h[e].keys, expr.field) # 0
    /\ LET v == h[h[e].kids[KeyIndex(h[e].keys, expr.field)]]
           l == Literal(expr.text)
       IN /\ v.k \in {"str", "num", "bool"}
          /\ IF expr.op = "==" THEN v = l
             ELSE IF expr.op = "!=" THEN v # l
             ELSE /\ v.k = "num" /\ l.k = "num"
                  /\ IF expr.op = ">" THEN v.n > l.n
                     ELSE IF expr.op = "<" THEN v.n < l.n
                     ELSE IF expr.op = ">=" THEN v.n >= l.n
                     ELSE v.n <= l.n

\* the elements of array a that the part [*] or [?...] selects, in ascending order
Selected(h, a, part) ==
    LET Sel(i) == part.txt = "*" \/ Satisfies(h, h[a].kids[i], part.expr)
    IN SelectSeq(Ascending(Len(h[a].kids)), Sel)

\* C24: on an array, [*] returns one result per element, in ascending index
\* order, each at the path of the array followed by the index, and a filter
\* returns exactly the elements that satisfy its predicate, in ascending order;
\* on the users document /users/[?age>25] returns one result, at /users/0, and
\* /users/[*] returns /users/0 and then /users/1
C24_ArrayAndFilterInIndexOrder ==
    [][(/\ ReaderStep("Query")
        /\ Len(ev'.query) >= 2
        /\ Direct(Front(ev'.query))
        /\ Last(ev'.query).br
        /\ Last(ev'.query).txt \in {"*", "?"}
        /\ Last(ev'.query).txt = "?" => Last(ev'.query).expr.op \in Operators
        /\ Walk(heap, Root, Front(ev'.query)) # 0 - 1
        /\ heap[Walk(heap, Root, Front(ev'.query))].k = "arr") =>
          LET a == Walk(heap, Root, Front(ev'.query))
              is == Selected(heap, a, Last(ev'.query))
              paths == [i \in 1 .. Len(ev'.results) |-> ev'.results[i].Path]
          IN /\ ev'.err = Nil
             /\ ev'.results =
                  [j \in 1 .. Len(is) |->
                      [Path |-> Spelled(Front(ev'.query)) \o <<Itoa(is[j] - 1)>>,
                       Node |-> Content(heap, heap[a].kids[is[j]])]]
             /\ (doc = UsersDoc /\ ev'.query = <<Key("users"), FilterPart("age", ">", NumText(25))>>)
                    => paths = <<(<<"users", "0">>)>>
             /\ (doc = UsersDoc /\ ev'.query = <<Key("users"), Bracket("*")>>)
                    => paths = <<(<<"users", "0">>), (<<"users", "1">>)>>]_vars

\* /users/[?age>25] has returned its one result on the users document
C24_Witness ==
    /\ ev.op = "Query"
    /\ doc = UsersDoc
    /\ ev.query = <<Key("users"), FilterPart("age", ">", NumText(25))>>
    /\ Len(ev.results) = 1
    /\ ev.results[1].Node = JObj(<<"name", "age">>, <<JStr("A"), JNum(30)>>)

\* a part that fans out: *, [*], or a filter with one of the operators
FansOut(part) == IsFanOut(part) /\ (part.txt = "?" => part.expr.op \in Operators)

\* the position of the first part of q that is neither plain nor an index, or 0
FirstFanOut(q) ==
    IF \E i \in 1 .. Len(q) : IsFanOut(q[i])
    THEN CHOOSE i \in 1 .. Len(q) : IsFanOut(q[i]) /\ \A j \in 1 .. i - 1 : ~IsFanOut(q[j])
    ELSE 0

\* the children of node a that the fan-out part continues under
Branches(h, a, part) ==
    {i \in 1 .. Len(h[a].kids) :
        part.txt = "?" => matchesFilter(h, h[a].kids[i], parseFilterCondition(part.expr).cond)}

\* node a is of the kind the fan-out part applies to
FanOutApplies(h, a, part) ==
    a # 0 - 1 /\ h[a].k = (IF ~part.br THEN "obj" ELSE "arr")

\* C25: a query of direct keys and indexes [N] returns an error when one of
\* them does not resolve (missing key, key on a non-object, index out of
\* bounds) and its one result otherwise; below a wildcard, a [*] or a filter
\* a mismatch drops the branch it is in: the query returns, without error, the
\* results of the branches that resolve
C25_HardAndSoftMismatch ==
    [][ReaderStep("Query") =>
        LET q == ev'.query
            k == FirstFanOut(q)
            F == SubSeq(q, 1, k - 1)
            rest == SubSeq(q, k + 1, Len(q))
            a == Walk(heap, Root, F)
            paths == {ev'.results[i].Path : i \in 1 .. Len(ev'.results)}
        IN /\ (k = 0 /\ Walk(heap, Root, q) = 0 - 1) => (ev'.err # Nil /\ ev'.results = <<>>)
           /\ (k = 0 /\ Walk(heap, Root, q) # 0 - 1) => (ev'.err = Nil /\ Len(ev'.results) = 1)
           /\ (k > 0 /\ FansOut(q[k]) /\ FanOutApplies(heap, a, q[k])) => ev'.err = Nil
           /\ (k > 0 /\ FansOut(q[k]) /\ FanOutApplies(heap, a, q[k]) /\ Direct(rest)) =>
                 /\ paths = {Spelled(F) \o <<Seg(heap[a], i)>> \o Spelled(rest) :
                               i \in {j \in Branches(heap, a, q[k]) :
                                         Walk(heap, heap[a].kids[j], rest) # 0 - 1}}
                 /\ Len(ev'.results) = Cardinality(paths)
                 /\ \A i \in 1 .. Len(ev'.results) :
                       ev'.results[i].Node =
                           Content(heap, NodeAt(heap, Root, ev'.results[i].Path))]_vars

\* /users/*/name has returned the names of x and y and dropped z, a number
C25_Witness ==
    /\ ev.op = "Query"
    /\ doc = MembersDoc
    /\ ev.query = <<Key("users"), Key("*"), Key("name")>>
    /\ ev.err = Nil
    /\ {ev.results[i].Path : i \in 1 .. Len(ev.results)}
          = {<<"users", "x", "name">>, <<"users", "y", "name">>}

\* the kind of the value of field of element e, or "none"
FieldKind(h, e, field) ==
    IF h[e].k = "obj" /\ KeyIndex(h[e].keys, field) # 0
    THEN h[h[e].kids[KeyIndex(h[e].keys, field)]].k
    ELSE "none"

\* C26: under a filter with any of the six operators, an element that is not
\* an object, or lacks the field, or whose field is of another kind than the
\* literal is not among the results, and the query returns no error
C26_MismatchNeverMatches ==
    [][(/\ ReaderStep("Query")
        /\ Len(ev'.query) = 2
        /\ ev'.query[1] = Key("users")
        /\ ev'.query[2].txt = "?"
        /\ ev'.query[2].expr.op \in Operators
        /\ heap[Walk(heap, Root, <<Key("users")>>)].k = "arr") =>
          LET a == Walk(heap, Root, <<Key("users")>>)
              expr == ev'.query[2].expr
          IN /\ ev'.err = Nil
             /\ \A i \in 1 .. Len(heap[a].kids) :
                   FieldKind(heap, heap[a].kids[i], expr.field) # Literal(expr.text).k
                       => \A j \in 1 .. Len(ev'.results) :
                             ev'.results[j].Path # <<"users", Itoa(i - 1)>>]_vars

\* C27: the nodes of the results of Query, QueryOne and FindAll are copies:
\* no node under a result is a node of the live tree, a write to a node of a
\* result leaves the live tree and the source's document as they are, and no
\* step of another goroutine changes the results a goroutine holds
C27_ResultsAreDeepCopies ==
    [][/\ \A t \in Threads : Held(t)' \cap Reach(heap', Root) = {}
       /\ ev'.op = "ModifyResult" => (Tree(heap') = Tree(heap) /\ doc' = doc)
       /\ \A t \in Threads :
             ev'.t # t => Seen(heap', held'[t]) = Seen(heap, held[t])]_vars

\* the reader holds the result of /name, and Replace has since changed /name
C27_Witness ==
    /\ Len(held[2]) = 1
    /\ held[2][1].Path = <<"name">>
    /\ Content(heap, held[2][1].Node) = JNum(5)
    /\ Content(heap, NodeAt(heap, Root, <<"name">>)) # JNum(5)
    /\ version = 2

RECURSIVE NodeAtOrNone(_, _, _)
\* the node of the tree at a path, or -1
NodeAtOrNone(h, node, segs) ==
    IF segs = <<>> THEN node
    ELSE IF \E i \in 1 .. Len(h[node].kids) : Seg(h[node], i) = Head(segs)
    THEN NodeAtOrNone(h, h[node].kids[CHOOSE i \in 1 .. Len(h[node].kids) :
                                         Seg(h[node], i) = Head(segs)], Tail(segs))
    ELSE 0 - 1

\* C28: CompareAndSwap and ConditionalReplace are one operation: called in
\* the same state with the same path, expected version and value they leave
\* the same state and return the same outcome, and on a version mismatch the
\* ConflictError of either carries the current value at the path whenever
\* the path resolves
C28_CompareAndSwapIsConditionalReplace ==
    [][(ops' = ops + 1 /\ ev'.op \in {"replace", "cas"} /\ ev'.cond) =>
          LET exp == IF ev'.stale THEN ev'.exp ELSE version
              a == CompareAndSwap(M, ev'.path, exp, ev'.value)
              b == ConditionalReplace(M, ev'.path, exp, ev'.value)
              n == NodeAtOrNone(heap, Root, ev'.path)
          IN /\ a.m = b.m
             /\ a.l = b.l
             /\ a.err.t = b.err.t
             /\ (ev'.stale /\ n # 0 - 1) =>
                   /\ ev'.err.t = "ConflictError"
                   /\ ev'.err.value = Content(heap, n)]_vars

\* C29: the version check and the mutation of a POST with a version field
\* are one step: a request is applied only while the version is the one it
\* carries, so of the requests that carry one version at most one is
\* applied, and a request answered with 409 changes nothing
C29_PostIsOptimisticallyLocked ==
    \A i, j \in 1 .. Len(log) : i # j => log[i].exp # log[j].exp

\* C30: when a call is rolled back after another call committed during its
\* callback window, the rollback takes out the edit of the rolled-back call
\* only: once no call is in flight the live tree, with the change of the
\* other call in it, is the document the source persisted, at the version
\* the commits produced
C30_RollbackUnderInterleaving ==
    [][(/\ ev'.phase = "return"
        /\ ev'.op \in {"insert", "remove", "replace", "cas"}
        /\ (ev'.herr \/ ev'.perr)
        /\ version > pre[ev'.t].version
        /\ \A u \in Threads : pc'[u] = "idle") =>
          /\ Content(heap', Root) = doc'
          /\ version' = 1 + Len(log')]_vars

\* C31: a callback that calls Insert, Remove or Replace does not deadlock:
\* nobody holds the lock while a handler runs, so the callback's call takes
\* the lock and returns (or reaches its own handler) while the outer call
\* waits with its locals untouched, and once the callback's call has returned
\* the outer call takes the lock again and runs to its return
C31_CallbackMutationDoesNotDeadlock ==
    [][/\ (\E t \in Threads : pc'[t] = "handler") => mu' = Free
       /\ (ev'.t = Inner /\ ops' = ops + 1) =>
              /\ pc[Outer] = "handler" /\ pc'[Outer] = "handler"
              /\ loc'[Outer] = loc[Outer] /\ call'[Outer] = call[Outer]
              /\ pc'[Inner] \in {"idle", "handler"}
       /\ (ev'.t = Outer /\ ev'.phase = "return" /\ pc[Outer] = "handler") =>
              /\ pc[Inner] = "idle"
              /\ pc'[Outer] = "idle" /\ mu' = Free]_vars

\* the callback's insert committed, and then the outer call committed
C31_Witness ==
    /\ Len(log) = 2
    /\ version = 3
    /\ ev.t = Outer /\ ev.phase = "return" /\ ev.err.t = "nil"
    /\ pc = [t \in Threads |-> "idle"]

\* the cache of manager m holds every node of the tree, each with the path
\* the uncached search returns for it
CacheAgrees(m) ==
    /\ DOMAIN m.pathCache = Reach(m.heap, Root)
    /\ \A n \in Reach(m.heap, Root) : m.pathCache[n] = findNodePath(m.heap, Root, n)

\* a step in which a call of Insert, Remove or Replace commits
CommitStep == ev'.phase = "return" /\ ev'.err.t = "nil" /\ version' = version + 1

\* C32: whenever the path cache is marked valid it holds every node reachable
\* from the root with the path of the uncached search, which is what
\* rebuildPathCache builds and marks valid in every state; after every
\* committed Insert, Remove or Replace the cache is marked invalid and is empty
C32_PathCacheAgreesWithSearch ==
    [][/\ pathCacheValid' => CacheAgrees(M')
       /\ rebuildPathCache(M').pathCacheValid /\ CacheAgrees(rebuildPathCache(M'))
       /\ \A n \in Reach(heap', Root) :
              findNodePathCached(M', n) = findNodePath(heap', Root, n)
       /\ CommitStep => (~pathCacheValid' /\ pathCache' = << >>)]_vars

\* an insert committed: the array has four elements, and the cache is invalid
\* and empty
C32_Witness ==
    /\ version = 2
    /\ ev.op = "insert" /\ ev.phase = "return" /\ ev.err.t = "nil"
    /\ Len(heap[NodeAt(heap, Root, <<"items">>)].kids) = 4
    /\ ~pathCacheValid /\ pathCache = << >>

\* C33: the path cache is built lazily: a registration that looked up the
\* path of its node leaves the cache marked valid and built for the whole
\* tree
C33_PathCacheBuiltOnFirstLookup ==
    [][(ev'.op \in RegisterOps /\ ops' = ops + 1 /\ ev'.err.t = "nil") =>
           (pathCacheValid' /\ CacheAgrees(M'))]_vars

RECURSIVE Put(_, _, _)
\* the document d with v at the path of segments segs (d itself if the path
\* leads nowhere)
Put(d, segs, v) ==
    IF segs = <<>> THEN v
    ELSE IF \E i \in 1 .. Len(d.kids) : Seg(d, i) = Head(segs)
    THEN LET i == CHOOSE j \in 1 .. Len(d.kids) : Seg(d, j) = Head(segs)
         IN [d EXCEPT !.kids = ReplaceAt(d.kids, i, Put(d.kids[i], Tail(segs), v))]
    ELSE d

\* the tree and the document when the call of goroutine t took the lock
TreeBefore(t) ==
    IF pc[t] = "handler" THEN Content(pre[t].tree, Root) ELSE Content(heap, Root)
DocBefore(t) == IF pc[t] = "handler" THEN pre[t].doc ELSE doc

\* C34: after a committed Replace(path, v) the live tree and the persisted
\* document both hold v at exactly that path and are otherwise unchanged,
\* also when the last segment of the path is an array index
C34_ReplaceEditsTreeAndDocumentAlike ==
    [][(ev'.op = "replace" /\ CommitStep) =>
           /\ Content(heap', Root) = Put(TreeBefore(ev'.t), ev'.path, ev'.value)
           /\ doc' = Put(DocBefore(ev'.t), ev'.path, ev'.value)]_vars

\* C35: Config() returns a deep copy: no node under the returned root is a
\* node of the live tree, a write to a node of the returned value leaves the
\* live tree as it is, and no step of another goroutine changes the value a
\* goroutine holds
C35_ConfigReturnsDeepCopy ==
    [][/\ \A t \in Threads :
             (ev'.op = "Config" /\ ev'.t = t) => Held(t)' \cap Reach(heap', Root) = {}
       /\ ev'.op = "ModifyResult" => Tree(heap') = Tree(heap)
       /\ \A t \in Threads :
             (ev'.t # t /\ held[t] # <<>>) =>
                 Seen(heap', held'[t]) = Seen(heap, held[t])]_vars

RECURSIVE SinceClear(_)
\* the events added by the calls since the last Clear, oldest first
SinceClear(calls) ==
    IF calls = <<>> THEN <<>>
    ELSE IF Last(calls).op = "Clear" THEN <<>>
    ELSE Append(SinceClear(Front(calls)), HistoryEvent(Last(calls).index))

\* the last n elements of a sequence
LastN(s, n) == IF Len(s) <= n THEN s ELSE SubSeq(s, Len(s) - n + 1, Len(s))

\* C37: the history is a bounded ring buffer: after any calls of Add and
\* Clear it holds at most maxSize events, and GetAll returns the min(k,
\* maxSize) events added last since the last Clear, oldest first
C37_HistoryIsBoundedRing ==
    /\ history.maxSize > 0
    /\ Len(history.events) <= history.maxSize
    /\ HistoryGetAll(history) = LastN(SinceClear(log), history.maxSize)

\* a history of size 2 that wrapped, was cleared, and wrapped again
C37_Witness ==
    /\ history.maxSize = 2
    /\ \E i \in 1 .. Len(log) : log[i].op = "Clear" /\ i > 2 /\ Len(log) - i > 2
    /\ HistoryGetAll(history) = <<HistoryEvent(Len(log) - 1), HistoryEvent(Len(log))>>
    /\ history.eventIndex = 1

C38_TreeAndDocumentAgreeWhenQuiet ==
    [][(/\ CommitStep
        /\ \A u \in Threads : pc'[u] = "idle") =>
          Content(heap', Root) = doc']_vars

\* the tree as the last commit left it: while the writer is in its handler
\* window, the tree its call found
CommittedHeap == IF pc[1] = "handler" THEN pre[1].tree @@ heap ELSE heap

\* C39: a Query, QueryOne or FindAll returns what the same read returns on the
\* tree of the last commit: never a value written by a mutation that has not
\* committed yet, and so never one that is rolled back afterwards
C39_ReadersSeeCommittedOnly ==
    [][(ev'.op \in {"Query", "QueryOne", "FindAll"} /\ ops' = ops + 1) =>
          \E order \in Orders(CommittedHeap) :
              ev'.results =
                  SeenMatches(CommittedHeap,
                              Matched([M EXCEPT !.heap = CommittedHeap],
                                      [kind |-> IF ev'.op = "FindAll" THEN "FindAll" ELSE "Query",
                                       query |-> ev'.query, predicate |-> ev'.predicate],
                                      order).results)
              \/ (ev'.op = "QueryOne" /\ ev'.results =
                  SubSeq(SeenMatches(CommittedHeap,
                              Matched([M EXCEPT !.heap = CommittedHeap],
                                      QueryOf(ev'.query), order).results), 1, 1))]_vars

\* Query(P) for the path P the system gives node n: exactly one result, which
\* holds the value of n
IsQueryFor(m, path, n) ==
    /\ queryLocked(m, PathParts(path), InsertionOrder(m.heap)).ok
    /\ Len(queryLocked(m, PathParts(path), InsertionOrder(m.heap)).results) = 1
    /\ FirstValue(m, path).value = Content(m.heap, n)

Replaceable(path) ==
    \E k \in DOMAIN modifiables :
        modifiables[k].Path = path /\ modifiables[k].Type = "Replaceable"

\* C40: the path of every registry entry and the path findNodePath gives for
\* every node of the tree (which is also the Path of the query results) is a
\* query that returns exactly that node's value, array indices included; so
\* the read of OptimisticUpdate on a Replaceable path finds its value and does
\* not fail with path not found
C40_ProducedPathsAreQueries ==
    [][/\ \A k \in DOMAIN modifiables' :
            IsQueryFor(M', modifiables'[k].Path, modifiables'[k].Node)
       /\ \A n \in Reach(heap', Root) :
            IsQueryFor(M', findNodePath(heap', Root, n), n)
       /\ (ev'.op = "update" /\ ev'.phase = "query" /\ Replaceable(ou[1].path)) =>
            ev'.err.msg # "path not found"]_vars

====
